---- MODULE Spec2Model ----
(***************************************************************************)
(* A model of the boto3-js wrappers: SimpleLambda (deploy, update, invoke, *)
(* delete, listFunctions) on top of SimpleIAM, run as concurrent async     *)
(* calls against one provider.  Every `await` of the source is a step:     *)
(* the remote request and its response are one atomic provider step, and   *)
(* the code that follows the await up to the next await runs with it.      *)
(***************************************************************************)
EXTENDS Integers, Sequences, FiniteSets, TLC

\* ------------------------------------------------------------------ bounds

\* Operations started over a whole run (call slots are reused).
MaxOps == 2

\* Time that passes between two polls of a waiter.
PollDelay == 90

\* The longest a poll of a waiter takes to answer.
SlowPoll == 100

\* The longest a describeSecret of the replica poll takes to answer.
SlowDescribe == 30000

\* The default `timeout` of removeReplicas, in milliseconds.
ReplicaTimeout == 60000

\* A timeout a caller of removeReplicas gives that one slow describe exceeds.
ShortTimeout == 1000

\* The sleep between two polls of removeReplicas, in milliseconds.
ReplicaPollDelay == 3000

\* maxWaitTime given to waitUntilFunctionActive / waitUntilFunctionUpdated.
MaxWaitTime == 180

\* ------------------------------------------------------------------ inputs

Calls == {"c1", "c2"}

FunctionNames == {"f1", "f2"}

Undefined == "undefined"

DefaultRoleName == "boto3js-lambda-role"

RoleOpts == {Undefined, "custom-role"}

RoleNames == {DefaultRoleName, "custom-role"}

ValidCodes == {"exports.handler = 1"}

Codes == {""} \cup ValidCodes


BasicExecutionPolicy == "arn:aws:iam::aws:policy/service-role/AWSLambdaBasicExecutionRole"

\* The trust document of _getOrCreateRole: lambda.amazonaws.com may sts:AssumeRole.
AssumePolicy == "Allow Service lambda.amazonaws.com sts:AssumeRole"

\* The regions a replicated secret has replicas in.
ReplicaRegions == {"eu-west-1"}

\* The two delete methods of SimpleSecret.
DeleteSecretOps == {"deleteSecretPermanent", "deleteSecretWithRecovery"}

\* The time a describeSecret of the replica poll takes.
DescribeLatencies == {0, SlowDescribe}

\* Errors a collaborator may answer with whatever the state of the provider.
TransientErrors == {"AccessDenied"}

\* ------------------------------------------------------------------ state

VARIABLES
  roles,        \* provider: names of the roles that exist
  attached,     \* provider: <<role name, policy arn>> attachments
  fnState,      \* provider: State of each function ("Absent" when there is none)
  fnUpdate,     \* provider: LastUpdateStatus of each function
  call,         \* per call slot: the async call running in it
  started,      \* operations started so far
  createdRoles, \* history: role names a role resolver call created and returned
  secrets,      \* provider: names of the secrets that exist
  replicas,     \* provider: of each secret name, whether it has replica regions
  processEnv,   \* process.env: the AWS_* variables
  globalConfig, \* index.js: the module's globalConfig
  established   \* history: globalConfig as the last successful setup / loadEnv left it

vars == <<roles, attached, fnState, fnUpdate, call, started, createdRoles, secrets, replicas,
          processEnv, globalConfig, established>>

\* The state of index.js and its environment.
configuration == <<processEnv, globalConfig, established>>

provider == <<roles, attached, fnState, fnUpdate, secrets, replicas>>

\* ------------------------------------------------------------------ JSON

\* Structured values: null, booleans, numbers, strings, arrays and objects
\* (members in insertion order).
JNull == [type |-> "null", n |-> 0, s |-> "", members |-> <<>>]

JBool(b) == [type |-> "bool", n |-> IF b THEN 1 ELSE 0, s |-> "", members |-> <<>>]

JArr(items) == [type |-> "arr", n |-> 0, s |-> "", members |-> items]

JNum(n) == [type |-> "num", n |-> n, s |-> "", members |-> <<>>]

JStr(str) == [type |-> "str", n |-> 0, s |-> str, members |-> <<>>]

JObj(members) == [type |-> "obj", n |-> 0, s |-> "", members |-> members]

Member(key, value) == [key |-> key, value |-> value]

EmptyObject == JObj(<<>>)

\* Text is a sequence of tokens.
Tok(t, n, str) == [t |-> t, n |-> n, s |-> str]

Punct(t) == Tok(t, 0, "")

RECURSIVE JsonStringify(_)
RECURSIVE StringifyMembers(_, _)
RECURSIVE StringifyItems(_, _)

\* JSON.stringify of the items of an array from index i on, comma separated.
StringifyItems(items, i) ==
  IF i > Len(items) THEN <<>>
  ELSE (IF i > 1 THEN <<Punct(",")>> ELSE <<>>)
         \o JsonStringify(items[i])
         \o StringifyItems(items, i + 1)

\* JSON.stringify of the members from index i on, comma separated.
StringifyMembers(members, i) ==
  IF i > Len(members) THEN <<>>
  ELSE (IF i > 1 THEN <<Punct(",")>> ELSE <<>>)
         \o <<Tok("str", 0, members[i].key), Punct(":")>>
         \o JsonStringify(members[i].value)
         \o StringifyMembers(members, i + 1)

\* JSON.stringify.
JsonStringify(v) ==
  CASE v.type = "null" -> <<Punct("null")>>
    [] v.type = "bool" -> <<Punct(IF v.n = 1 THEN "true" ELSE "false")>>
    [] v.type = "num" -> <<Tok("num", v.n, "")>>
    [] v.type = "str" -> <<Tok("str", 0, v.s)>>
    [] v.type = "arr" -> <<Punct("[")>> \o StringifyItems(v.members, 1) \o <<Punct("]")>>
    [] OTHER -> <<Punct("{")>> \o StringifyMembers(v.members, 1) \o <<Punct("}")>>

ParseFail == [ok |-> FALSE, value |-> EmptyObject, next |-> 0]

ParseOk(value, next) == [ok |-> TRUE, value |-> value, next |-> next]

RECURSIVE ParseValue(_, _)
RECURSIVE ParseMembers(_, _, _)
RECURSIVE ParseItems(_, _, _)

\* The items of an array from token i on, up to and including its "]".
ParseItems(toks, i, acc) ==
  LET v == ParseValue(toks, i)
  IN IF ~v.ok \/ v.next > Len(toks) THEN ParseFail
     ELSE LET acc2 == Append(acc, v.value)
          IN CASE toks[v.next].t = "]" -> ParseOk(JArr(acc2), v.next + 1)
               [] toks[v.next].t = "," -> ParseItems(toks, v.next + 1, acc2)
               [] OTHER -> ParseFail

\* The members of an object from token i on, up to and including its "}".
ParseMembers(toks, i, acc) ==
  IF i + 2 > Len(toks) \/ toks[i].t # "str" \/ toks[i + 1].t # ":" THEN ParseFail
  ELSE LET v == ParseValue(toks, i + 2)
       IN IF ~v.ok \/ v.next > Len(toks) THEN ParseFail
          ELSE LET acc2 == Append(acc, Member(toks[i].s, v.value))
               IN CASE toks[v.next].t = "}" -> ParseOk(JObj(acc2), v.next + 1)
                    [] toks[v.next].t = "," -> ParseMembers(toks, v.next + 1, acc2)
                    [] OTHER -> ParseFail

\* The value that starts at token i.
ParseValue(toks, i) ==
  IF i > Len(toks) THEN ParseFail
  ELSE CASE toks[i].t = "null" -> ParseOk(JNull, i + 1)
         [] toks[i].t = "true" -> ParseOk(JBool(TRUE), i + 1)
         [] toks[i].t = "false" -> ParseOk(JBool(FALSE), i + 1)
         [] toks[i].t = "num" -> ParseOk(JNum(toks[i].n), i + 1)
         [] toks[i].t = "str" -> ParseOk(JStr(toks[i].s), i + 1)
         [] toks[i].t = "{" ->
              IF i + 1 <= Len(toks) /\ toks[i + 1].t = "}"
                THEN ParseOk(EmptyObject, i + 2)
                ELSE ParseMembers(toks, i + 1, <<>>)
         [] toks[i].t = "[" ->
              IF i + 1 <= Len(toks) /\ toks[i + 1].t = "]"
                THEN ParseOk(JArr(<<>>), i + 2)
                ELSE ParseItems(toks, i + 1, <<>>)
         [] OTHER -> ParseFail

\* JSON.parse: the whole text is one value, or a SyntaxError.
JsonParse(toks) ==
  LET v == ParseValue(toks, 1)
  IN IF v.ok /\ v.next = Len(toks) + 1
       THEN [ok |-> TRUE, value |-> v.value, error |-> ""]
       ELSE [ok |-> FALSE, value |-> EmptyObject, error |-> "Unexpected token in JSON"]

Payloads == {EmptyObject, JObj(<<Member("key", JStr("value"))>>)}

\* Payloads of every kind of JSON value, nested.
RichPayloads ==
  Payloads \cup
    {JNull, JBool(TRUE), JNum(0), JStr(""), JArr(<<>>),
     JArr(<<JNum(1), JObj(<<Member("a", JNull)>>), JArr(<<JStr("x")>>)>>),
     JObj(<<Member("n", JNum(-2)), Member("list", JArr(<<JBool(FALSE), JStr("a,b")>>)),
            Member("inner", JObj(<<Member("key", JStr("value"))>>))>>)}

NotJson == <<Punct("<"), Tok("str", 0, "html"), Punct(">")>>

\* ------------------------------------------------------------------ pure helpers

\* _handleError of SimpleLambda with the cause left out of the message.
LambdaHandleErrorDropsCause(operation, message) == "Lambda " \o operation \o " failed"

\* _handleError of SimpleLambda: the message of the Error it throws.
LambdaHandleError(operation, message) == "Lambda " \o operation \o " failed: " \o message

\* _handleError of SimpleIAM.
IAMHandleError(operation, message) == "IAM " \o operation \o " failed: " \o message

\* _handleError of SimpleS3.
S3HandleError(operation, message) == "S3 " \o operation \o " failed: " \o message

\* _handleError of SimpleDynamoDB.
DynamoDBHandleError(operation, message) == "DynamoDB " \o operation \o " failed: " \o message

\* _handleError of SimpleSecret.
SecretsManagerHandleError(operation, message) ==
  "SecretsManager " \o operation \o " failed: " \o message

\* The name of the Error object every _handleError throws: `new Error(...)`.
ErrorName == "Error"

\* _createZipBuffer: an archive with the single entry index.js.
CreateZipBuffer(codeString) == <<[entry |-> "index.js", data |-> codeString]>>

\* The default parameter of _getOrCreateRole.
RoleNameOf(roleOpt) == IF roleOpt = Undefined THEN DefaultRoleName ELSE roleOpt

RoleArnOf(roleName) == "arn:aws:iam::role/" \o roleName

FunctionArnOf(functionName) == "arn:aws:lambda:function:" \o functionName

Cmd(cmd, target, arg) == [cmd |-> cmd, target |-> target, arg |-> arg]

Ok(value) == [ok |-> TRUE, value |-> value, error |-> ""]

Err(message) == [ok |-> FALSE, value |-> Undefined, error |-> message]

\* A failed response in the shape of the successful ones it stands among.
ErrWith(shape, message) == [ok |-> FALSE, value |-> shape, error |-> message]

\* An Invoke response without a Payload.
NoPayload == [present |-> FALSE, bytes |-> <<>>]

NoConfiguration == [State |-> "none", LastUpdateStatus |-> "none"]

IdleCall ==
  [svc |-> "Lambda", op |-> "none", arity |-> 1, fname |-> Undefined, arg2 |-> Undefined,
   ropt |-> Undefined, code |-> "",
   pc |-> "idle", lookup |-> "none", created |-> "none", newRole |-> Undefined,
   roleArn |-> Undefined, res |-> Undefined, elapsed |-> 0, pollTime |-> 0, polled |-> "none",
   waiter |-> "none", status |-> "pending", value |-> Undefined, error |-> "",
   payload |-> EmptyObject, bytes |-> <<>>, decoded |-> EmptyObject, listed |-> {},
   priorCreated |-> FALSE, sent |-> <<>>, failed |-> <<>>,
   kind |-> "none", polls |-> <<>>, response |-> NoPayload, existed |-> FALSE,
   policies |-> <<>>, todo |-> <<>>,
   given |-> <<>>, events |-> <<>>, retries |-> 0, token |-> Undefined,
   options |-> [accessKeyId |-> "absent", secretAccessKey |-> "absent", region |-> "absent"],
   signed |-> <<>>, arg3 |-> Undefined, arg4 |-> Undefined, regions |-> {}, timeout |-> 0]

\* ------------------------------------------------------------------ provider

\* GetRole: the role when it exists, NoSuchEntity when not, or a transient error.
GetRoleResponses(roleName) ==
  (IF roleName \in roles THEN {Ok(RoleArnOf(roleName))} ELSE {Err("NoSuchEntity")})
    \cup {Err(e) : e \in TransientErrors}

\* CreateRole: creates the role unless one of that name exists.
CreateRoleResponses(roleName) ==
  (IF roleName \in roles THEN {Err("EntityAlreadyExists")} ELSE {Ok(RoleArnOf(roleName))})
    \cup {Err(e) : e \in TransientErrors}

\* AttachRolePolicy on an existing role.
AttachRolePolicyResponses(roleName) ==
  (IF roleName \in roles THEN {Ok("")} ELSE {Err("NoSuchEntity")})
    \cup {Err(e) : e \in TransientErrors}

\* CreateFunction: a new function starts Pending.
CreateFunctionResponses(functionName) ==
  (IF fnState[functionName] = "Absent"
     THEN {Ok(FunctionArnOf(functionName))}
     ELSE {Err("ResourceConflictException")})
    \cup {Err(e) : e \in TransientErrors}

\* GetFunctionConfiguration, the poll of both waiters: the function as it is now.
GetFunctionResponses(functionName) ==
  (IF fnState[functionName] = "Absent"
     THEN {ErrWith(NoConfiguration, "ResourceNotFoundException")}
     ELSE {Ok([State |-> fnState[functionName], LastUpdateStatus |-> fnUpdate[functionName]])})
    \cup {ErrWith(NoConfiguration, e) : e \in TransientErrors}

\* UpdateFunctionCode: accepted for an Active function with no update in progress.
UpdateFunctionCodeResponses(functionName) ==
  (IF fnState[functionName] = "Absent"
     THEN {Err("ResourceNotFoundException")}
     ELSE IF fnState[functionName] = "Active" /\ fnUpdate[functionName] # "InProgress"
       THEN {Ok(FunctionArnOf(functionName))}
       ELSE {Err("ResourceConflictException")})
    \cup {Err(e) : e \in TransientErrors}

\* DeleteFunction.
DeleteFunctionResponses(functionName) ==
  (IF fnState[functionName] = "Absent"
     THEN {Err("ResourceNotFoundException")}
     ELSE {Ok("204")})
    \cup {Err(e) : e \in TransientErrors}

\* ListFunctions: the Functions of the account.
ListFunctionsResponses ==
  {Ok({f \in FunctionNames : fnState[f] # "Absent"})} \cup {ErrWith({}, e) : e \in TransientErrors}

\* Invoke: the bytes the function answers with: nothing, what it was sent, or no JSON.
InvokeResponses(functionName, bytes) ==
  (IF fnState[functionName] = "Active"
     THEN {Ok([present |-> p, bytes |-> b]) :
             p \in {TRUE}, b \in {<<>>, bytes, NotJson}} \cup {Ok(NoPayload)}
     ELSE {ErrWith(NoPayload, "ResourceNotFoundException")})
    \cup {ErrWith(NoPayload, e) : e \in TransientErrors}

\* The provider finishes creating a function.
ProviderSettlesCreate(f) ==
  /\ fnState[f] = "Pending"
  /\ \E s \in {"Active", "Failed"} : fnState' = [fnState EXCEPT ![f] = s]
  /\ UNCHANGED <<configuration, roles, attached, fnUpdate, call, started, createdRoles, secrets, replicas>>

\* The provider finishes a code update.
ProviderSettlesUpdate(f) ==
  /\ fnUpdate[f] = "InProgress"
  /\ \E s \in {"Successful", "Failed"} : fnUpdate' = [fnUpdate EXCEPT ![f] = s]
  /\ UNCHANGED <<configuration, roles, attached, fnState, call, started, createdRoles, secrets, replicas>>

\* ------------------------------------------------------------------ waiters

\* One round of a waiter: what it does with the answer to its poll, `observed`
\* being the polled field and `now` the time since the wait began when the
\* answer came.  TIMEOUT when the budget ran out while the poll was under way
\* (its answer is not looked at), SUCCESS at the target state, FAILURE at the
\* failed state, TIMEOUT when the next poll would come after maxWaitTime, RETRY
\* otherwise.  What the waiter does with a poll that failed is not decided by
\* the repository: onError is "abort" (it throws the poll's error) or "retry"
\* (it polls again while the budget lasts).
WaiterStep(resp, observed, target, failed, now, onError) ==
  IF now > MaxWaitTime THEN "TIMEOUT"
  ELSE IF ~resp.ok /\ onError = "abort" THEN "ERROR"
  ELSE IF resp.ok /\ observed = target THEN "SUCCESS"
  ELSE IF resp.ok /\ observed = failed THEN "FAILURE"
  ELSE IF now + PollDelay > MaxWaitTime THEN "TIMEOUT"
  ELSE "RETRY"

\* The message of the error a waiter throws.
WaiterMessage(result, resp) ==
  CASE result = "ERROR" -> resp.error
    [] result = "FAILURE" -> "Waiter failed: FAILURE"
    [] result = "TIMEOUT" -> "TimeoutError: waiter timed out"
    [] OTHER -> ""

\* WaiterPoll with no wait budget: when the budget is spent the waiter starts
\* its clock again and goes on polling.
WaiterPollNeverTimesOut(k, functionName, field, target, resp, latency, onError) ==
  LET now == k.elapsed + k.pollTime + latency
      observed == IF now > MaxWaitTime THEN "unanswered"
                  ELSE IF resp.ok THEN resp.value[field] ELSE "error"
      w == WaiterStep(resp, observed, target, "Failed", now, onError)
  IN CASE w = "RETRY" -> [k EXCEPT !.waiter = "RETRY", !.pollTime = @ + latency,
                                   !.elapsed = @ + PollDelay]
       [] w = "TIMEOUT" -> [k EXCEPT !.waiter = "RETRY", !.pollTime = 0, !.elapsed = 0]
       [] OTHER -> [k EXCEPT !.sent = Append(@, Cmd("GetFunctionConfiguration", functionName, "")),
                             !.polled = observed, !.waiter = w, !.polls = Append(@, observed),
                             !.pollTime = @ + latency]

\* WaiterPoll asking for a second look: the target state seen at the very
\* first poll does not end the wait.
WaiterPollConfirmsTwice(k, functionName, field, target, resp, latency, onError) ==
  LET now == k.elapsed + k.pollTime + latency
      observed == IF now > MaxWaitTime THEN "unanswered"
                  ELSE IF resp.ok THEN resp.value[field] ELSE "error"
      v == WaiterStep(resp, observed, target, "Failed", now, onError)
      w == IF v = "SUCCESS" /\ k.polls = <<>> /\ now + PollDelay <= MaxWaitTime
             THEN "RETRY" ELSE v
  IN [k EXCEPT !.sent = Append(@, Cmd("GetFunctionConfiguration", functionName, "")),
               !.polled = observed, !.waiter = w, !.polls = Append(@, observed),
               !.pollTime = @ + latency,
               !.elapsed = IF w = "RETRY" THEN @ + PollDelay ELSE @]

\* One poll of a waiter that is under way: GetFunctionConfiguration for the
\* function, answered after `latency`; the waiter's verdict is left in
\* k.waiter, and after RETRY the waiter sleeps PollDelay.  elapsed is the time
\* slept and pollTime the time spent in polls since the wait began.
WaiterPoll(k, functionName, field, target, resp, latency, onError) ==
  LET now == k.elapsed + k.pollTime + latency
      observed == IF now > MaxWaitTime THEN "unanswered"
                  ELSE IF resp.ok THEN resp.value[field] ELSE "error"
      w == WaiterStep(resp, observed, target, "Failed", now, onError)
  IN [k EXCEPT !.sent = Append(@, Cmd("GetFunctionConfiguration", functionName, "")),
               !.polled = observed, !.waiter = w, !.polls = Append(@, observed),
               !.pollTime = @ + latency,
               !.elapsed = IF w = "RETRY" THEN @ + PollDelay ELSE @]

\* ------------------------------------------------------------------ SimpleLambda.deploy

\* A failure the call ran into: the collaborator call (or local step) and its error.
Failure(cmd, message) == [cmd |-> cmd, error |-> message]

Failed(k, cmd, message) == [k EXCEPT !.failed = Append(@, Failure(cmd, message))]

\* catch (err) { this._handleError(operation, err) }: the call rejects.
Reject(k, operation, message) ==
  [k EXCEPT !.pc = "done", !.status = "rejected", !.kind = ErrorName,
                  !.error = LambdaHandleError(operation, message)]

StartDeploy(c, codes) ==
  /\ call[c].pc \in {"idle", "done"}
  /\ started < MaxOps
  /\ \E f \in FunctionNames, ro \in RoleOpts, code \in codes :
       call' = [call EXCEPT ![c] =
                  [IdleCall EXCEPT !.op = "deploy", !.fname = f, !.ropt = ro,
                                   !.code = code, !.pc = "getRole",
                                   !.priorCreated = RoleNameOf(ro) \in createdRoles]]
  /\ started' = started + 1
  /\ UNCHANGED <<configuration, provider, createdRoles>>

\* DeployGetRole attaching the policy again to a role it found.
DeployGetRoleReattaches(c) ==
  /\ call[c].pc = "getRole"
  /\ LET r == RoleNameOf(call[c].ropt)
         log == Append(call[c].sent, Cmd("GetRole", r, ""))
     IN \E resp \in GetRoleResponses(r) :
          IF resp.ok
            THEN /\ call' = [call EXCEPT ![c].sent = log, ![c].lookup = "found",
                                         ![c].newRole = resp.value,
                                         ![c].pc = "attachPolicy"]
            ELSE /\ call' = [call EXCEPT ![c].sent = log, ![c].lookup = resp.error,
                                         ![c].failed = Append(@, Failure("GetRole", resp.error)),
                                         ![c].pc = "createRole"]
  /\ UNCHANGED <<configuration, provider, started, createdRoles>>

\* _getOrCreateRole, try block: iam.getRole and the fast path.
DeployGetRole(c) ==
  /\ call[c].pc = "getRole"
  /\ LET r == RoleNameOf(call[c].ropt)
         log == Append(call[c].sent, Cmd("GetRole", r, ""))
     IN \E resp \in GetRoleResponses(r) :
          IF resp.ok
            THEN /\ call' = [call EXCEPT ![c].sent = log, ![c].lookup = "found",
                                         ![c].roleArn = resp.value,
                                         ![c].pc = "createFunction"]
            ELSE /\ call' = [call EXCEPT ![c].sent = log, ![c].lookup = resp.error,
                                         ![c].failed = Append(@, Failure("GetRole", resp.error)),
                                         ![c].pc = "createRole"]
  /\ UNCHANGED <<configuration, provider, started, createdRoles>>

\* DeployCreateRole returning the new role without attaching the policy.
DeployCreateRoleSkipsAttach(c) ==
  /\ call[c].pc = "createRole"
  /\ LET r == RoleNameOf(call[c].ropt)
         log == Append(call[c].sent, Cmd("CreateRole", r, AssumePolicy))
     IN \E resp \in CreateRoleResponses(r) :
          IF resp.ok
            THEN /\ roles' = roles \cup {r}
                 /\ call' = [call EXCEPT ![c].sent = log, ![c].created = "ok",
                                         ![c].newRole = resp.value,
                                         ![c].roleArn = resp.value,
                                         ![c].pc = "createFunction"]
            ELSE /\ UNCHANGED roles
                 /\ call' = [call EXCEPT ![c] =
                      Reject(Failed([call[c] EXCEPT !.sent = log, !.created = resp.error],
                                    "CreateRole", resp.error),
                             "deploy(" \o call[c].fname \o ")",
                             IAMHandleError("createRole(" \o r \o ")", resp.error))]
  /\ UNCHANGED <<configuration, attached, fnState, fnUpdate, started, createdRoles, secrets, replicas>>

\* _getOrCreateRole, catch block: iam.createRole with the trust policy.
DeployCreateRole(c) ==
  /\ call[c].pc = "createRole"
  /\ LET r == RoleNameOf(call[c].ropt)
         log == Append(call[c].sent, Cmd("CreateRole", r, AssumePolicy))
     IN \E resp \in CreateRoleResponses(r) :
          IF resp.ok
            THEN /\ roles' = roles \cup {r}
                 /\ call' = [call EXCEPT ![c].sent = log, ![c].created = "ok",
                                         ![c].newRole = resp.value,
                                         ![c].pc = "attachPolicy"]
            ELSE /\ UNCHANGED roles
                 /\ call' = [call EXCEPT ![c] =
                      Reject(Failed([call[c] EXCEPT !.sent = log, !.created = resp.error],
                                    "CreateRole", resp.error),
                             "deploy(" \o call[c].fname \o ")",
                             IAMHandleError("createRole(" \o r \o ")", resp.error))]
  /\ UNCHANGED <<configuration, attached, fnState, fnUpdate, started, createdRoles, secrets, replicas>>

\* _getOrCreateRole, catch block: iam.attachPolicyToRole, then return newRole.Arn.
DeployAttachPolicy(c) ==
  /\ call[c].pc = "attachPolicy"
  /\ LET r == RoleNameOf(call[c].ropt)
         log == Append(call[c].sent, Cmd("AttachRolePolicy", r, BasicExecutionPolicy))
     IN \E resp \in AttachRolePolicyResponses(r) :
          IF resp.ok
            THEN /\ attached' = attached \cup {<<r, BasicExecutionPolicy>>}
                 /\ call' = [call EXCEPT ![c].sent = log,
                                         ![c].roleArn = call[c].newRole,
                                         ![c].pc = "createFunction"]
                 /\ createdRoles' = createdRoles \cup {r}
            ELSE /\ UNCHANGED <<attached, createdRoles>>
                 /\ call' = [call EXCEPT ![c] =
                      Reject(Failed([call[c] EXCEPT !.sent = log], "AttachRolePolicy", resp.error),
                             "deploy(" \o call[c].fname \o ")",
                             IAMHandleError("attachPolicyToRole(" \o r \o ", "
                                              \o BasicExecutionPolicy \o ")",
                                            resp.error))]
  /\ UNCHANGED <<configuration, roles, fnState, fnUpdate, started, secrets, replicas>>

\* DeployCreateFunction giving the function the default role whatever role was
\* asked for and resolved.
DeployCreateFunctionDefaultRole(c) ==
  /\ call[c].pc = "createFunction"
  /\ LET f == call[c].fname
         zipBuffer == CreateZipBuffer(call[c].code)
         log == Append(call[c].sent, Cmd("CreateFunction", f, RoleArnOf(DefaultRoleName)))
     IN \E resp \in CreateFunctionResponses(f) :
          IF resp.ok
            THEN /\ fnState' = [fnState EXCEPT ![f] = "Pending"]
                 /\ call' = [call EXCEPT ![c].sent = log, ![c].res = resp.value,
                                         ![c].pc = "waitActive"]
            ELSE /\ UNCHANGED fnState
                 /\ call' = [call EXCEPT ![c] =
                      Reject(Failed([call[c] EXCEPT !.sent = log], "CreateFunction", resp.error),
                             "deploy(" \o f \o ")", resp.error)]
  /\ UNCHANGED <<configuration, roles, attached, fnUpdate, started, createdRoles, secrets, replicas>>

\* DeployCreateFunction going on to the waiter although the create call failed.
DeployCreateFunctionWaitsAnyway(c) ==
  /\ call[c].pc = "createFunction"
  /\ LET f == call[c].fname
         zipBuffer == CreateZipBuffer(call[c].code)
         log == Append(call[c].sent, Cmd("CreateFunction", f, call[c].roleArn))
     IN \E resp \in CreateFunctionResponses(f) :
          IF resp.ok
            THEN /\ fnState' = [fnState EXCEPT ![f] = "Pending"]
                 /\ call' = [call EXCEPT ![c].sent = log, ![c].res = resp.value,
                                         ![c].pc = "waitActive"]
            ELSE /\ UNCHANGED fnState
                 /\ call' = [call EXCEPT ![c] =
                      [Failed([call[c] EXCEPT !.sent = log], "CreateFunction", resp.error)
                         EXCEPT !.pc = "waitActive"]]
  /\ UNCHANGED <<configuration, roles, attached, fnUpdate, started, createdRoles, secrets, replicas>>

\* deploy: _createZipBuffer, then CreateFunctionCommand with the resolved role.
DeployCreateFunction(c) ==
  /\ call[c].pc = "createFunction"
  /\ LET f == call[c].fname
         zipBuffer == CreateZipBuffer(call[c].code)
         log == Append(call[c].sent, Cmd("CreateFunction", f, call[c].roleArn))
     IN \E resp \in CreateFunctionResponses(f) :
          IF resp.ok
            THEN /\ fnState' = [fnState EXCEPT ![f] = "Pending"]
                 /\ call' = [call EXCEPT ![c].sent = log, ![c].res = resp.value,
                                         ![c].pc = "waitActive"]
            ELSE /\ UNCHANGED fnState
                 /\ call' = [call EXCEPT ![c] =
                      Reject(Failed([call[c] EXCEPT !.sent = log], "CreateFunction", resp.error),
                             "deploy(" \o f \o ")", resp.error)]
  /\ UNCHANGED <<configuration, roles, attached, fnUpdate, started, createdRoles, secrets, replicas>>

\* DeployWait deleting the function it created when the wait times out.
DeployWaitRollsBack(c) ==
  /\ call[c].pc = "waitActive"
  /\ LET f == call[c].fname
     IN \E resp \in GetFunctionResponses(f), latency \in {0, SlowPoll},
           onError \in {"abort", "retry"} :
          LET k == WaiterPoll(call[c], f, "State", "Active", resp, latency, onError)
              w == k.waiter
          IN /\ call' = [call EXCEPT ![c] =
                  CASE w = "RETRY" -> k
                    [] w = "SUCCESS" -> [k EXCEPT !.pc = "done", !.status = "resolved", !.value = k.res]
                    [] OTHER -> Reject(Failed(k, "waitUntilFunctionActive", WaiterMessage(w, resp)),
                                       "deploy(" \o f \o ")", WaiterMessage(w, resp))]
             /\ fnState' = IF w = "TIMEOUT" THEN [fnState EXCEPT ![f] = "Absent"] ELSE fnState
  /\ UNCHANGED <<configuration, roles, attached, fnUpdate, started, createdRoles, secrets, replicas>>

\* DeployWait with the waiter's verdict ignored: deploy returns after the first
\* poll that did not fail, whatever state it saw.
DeployWaitReturnsEarly(c) ==
  /\ call[c].pc = "waitActive"
  /\ LET f == call[c].fname
     IN \E resp \in GetFunctionResponses(f), latency \in {0, SlowPoll},
           onError \in {"abort", "retry"} :
          LET k == WaiterPoll(call[c], f, "State", "Active", resp, latency, onError)
              w == k.waiter
          IN /\ call' = [call EXCEPT ![c] =
                  CASE w = "RETRY" -> [k EXCEPT !.pc = "done", !.status = "resolved", !.value = k.res]
                    [] w = "SUCCESS" -> [k EXCEPT !.pc = "done", !.status = "resolved", !.value = k.res]
                    [] OTHER -> Reject(Failed(k, "waitUntilFunctionActive", WaiterMessage(w, resp)),
                                       "deploy(" \o f \o ")", WaiterMessage(w, resp))]
  /\ UNCHANGED <<configuration, provider, started, createdRoles>>

\* DeployWait returning the identifier of the role instead of res.FunctionArn.
DeployWaitReturnsRoleArn(c) ==
  /\ call[c].pc = "waitActive"
  /\ LET f == call[c].fname
     IN \E resp \in GetFunctionResponses(f), latency \in {0, SlowPoll},
           onError \in {"abort", "retry"} :
          LET k == WaiterPoll(call[c], f, "State", "Active", resp, latency, onError)
              w == k.waiter
          IN /\ call' = [call EXCEPT ![c] =
                  CASE w = "RETRY" -> k
                    [] w = "SUCCESS" -> [k EXCEPT !.pc = "done", !.status = "resolved", !.value = k.roleArn]
                    [] OTHER -> Reject(Failed(k, "waitUntilFunctionActive", WaiterMessage(w, resp)),
                                       "deploy(" \o f \o ")", WaiterMessage(w, resp))]
  /\ UNCHANGED <<configuration, provider, started, createdRoles>>

\* DeployWait with the function name kept in a field of the instance that every
\* call overwrites: the waiter polls the function of the other running call.
DeployWaitSharedName(c) ==
  /\ call[c].pc = "waitActive"
  /\ LET others == {call[d].fname : d \in {d \in Calls : d # c /\ call[d].pc \notin {"idle", "done"}
                                                        /\ call[d].fname # Undefined}}
         f == IF others = {} THEN call[c].fname ELSE CHOOSE g \in others : TRUE
     IN \E resp \in GetFunctionResponses(f), latency \in {0, SlowPoll},
           onError \in {"abort", "retry"} :
          LET k == WaiterPoll(call[c], f, "State", "Active", resp, latency, onError)
              w == k.waiter
          IN /\ call' = [call EXCEPT ![c] =
                  CASE w = "RETRY" -> k
                    [] w = "SUCCESS" -> [k EXCEPT !.pc = "done", !.status = "resolved", !.value = k.res]
                    [] OTHER -> Reject(Failed(k, "waitUntilFunctionActive", WaiterMessage(w, resp)),
                                       "deploy(" \o call[c].fname \o ")", WaiterMessage(w, resp))]
  /\ UNCHANGED <<configuration, provider, started, createdRoles>>

\* deploy: await waitUntilFunctionActive({ client, maxWaitTime: 180 },
\* { FunctionName }), one poll of the waiter per step.  While the waiter polls
\* again the await is pending; when it resolves deploy returns
\* res.FunctionArn; when it throws the catch rejects with
\* _handleError(`deploy(${functionName})`, err).
DeployWait(c) ==
  /\ call[c].pc = "waitActive"
  /\ LET f == call[c].fname
     IN \E resp \in GetFunctionResponses(f), latency \in {0, SlowPoll},
           onError \in {"abort", "retry"} :
          LET k == WaiterPoll(call[c], f, "State", "Active", resp, latency, onError)
              w == k.waiter
          IN /\ call' = [call EXCEPT ![c] =
                  CASE w = "RETRY" -> k
                    [] w = "SUCCESS" -> [k EXCEPT !.pc = "done", !.status = "resolved", !.value = k.res]
                    [] OTHER -> Reject(Failed(k, "waitUntilFunctionActive", WaiterMessage(w, resp)),
                                       "deploy(" \o f \o ")", WaiterMessage(w, resp))]
  /\ UNCHANGED <<configuration, provider, started, createdRoles>>

\* ------------------------------------------------------------------ SimpleLambda.update

StartUpdate(c, codes) ==
  /\ call[c].pc \in {"idle", "done"}
  /\ started < MaxOps
  /\ \E f \in FunctionNames, code \in codes :
       call' = [call EXCEPT ![c] =
                  [IdleCall EXCEPT !.op = "update", !.fname = f, !.code = code,
                                   !.pc = "updateCode"]]
  /\ started' = started + 1
  /\ UNCHANGED <<configuration, provider, createdRoles>>

\* UpdateCode resolving the default role first, creating it when it is missing.
UpdateCodeResolvesRole(c) ==
  /\ call[c].pc = "updateCode"
  /\ LET f == call[c].fname
         log == call[c].sent \o <<Cmd("GetRole", DefaultRoleName, ""),
                                  Cmd("UpdateFunctionCode", f, "")>>
     IN \E resp \in UpdateFunctionCodeResponses(f) :
          IF resp.ok
            THEN /\ fnUpdate' = [fnUpdate EXCEPT ![f] = "InProgress"]
                 /\ call' = [call EXCEPT ![c].sent = log, ![c].res = resp.value,
                                         ![c].pc = "waitUpdated"]
            ELSE /\ UNCHANGED fnUpdate
                 /\ call' = [call EXCEPT ![c] =
                      Reject(Failed([call[c] EXCEPT !.sent = log], "UpdateFunctionCode", resp.error),
                             "update(" \o f \o ")", resp.error)]
  /\ roles' = roles \cup {DefaultRoleName}
  /\ UNCHANGED <<configuration, attached, fnState, started, createdRoles, secrets, replicas>>

\* update: _createZipBuffer, then UpdateFunctionCodeCommand.
UpdateCode(c) ==
  /\ call[c].pc = "updateCode"
  /\ LET f == call[c].fname
         zipBuffer == CreateZipBuffer(call[c].code)
         log == Append(call[c].sent, Cmd("UpdateFunctionCode", f, ""))
     IN \E resp \in UpdateFunctionCodeResponses(f) :
          IF resp.ok
            THEN /\ fnUpdate' = [fnUpdate EXCEPT ![f] = "InProgress"]
                 /\ call' = [call EXCEPT ![c].sent = log, ![c].res = resp.value,
                                         ![c].pc = "waitUpdated"]
            ELSE /\ UNCHANGED fnUpdate
                 /\ call' = [call EXCEPT ![c] =
                      Reject(Failed([call[c] EXCEPT !.sent = log], "UpdateFunctionCode", resp.error),
                             "update(" \o f \o ")", resp.error)]
  /\ UNCHANGED <<configuration, roles, attached, fnState, started, createdRoles, secrets, replicas>>

\* UpdateWait with a timeout taken for completion: update returns the identifier
\* when the wait budget runs out.
UpdateWaitTimeoutResolves(c) ==
  /\ call[c].pc = "waitUpdated"
  /\ LET f == call[c].fname
     IN \E resp \in GetFunctionResponses(f), latency \in {0, SlowPoll},
           onError \in {"abort", "retry"} :
          LET k == WaiterPoll(call[c], f, "LastUpdateStatus", "Successful", resp, latency, onError)
              w == k.waiter
          IN /\ call' = [call EXCEPT ![c] =
                  CASE w = "RETRY" -> k
                    [] w \in {"SUCCESS", "TIMEOUT"} -> [k EXCEPT !.pc = "done", !.status = "resolved", !.value = k.res]
                    [] OTHER -> Reject(Failed(k, "waitUntilFunctionUpdated", WaiterMessage(w, resp)),
                                       "update(" \o f \o ")", WaiterMessage(w, resp))]
  /\ UNCHANGED <<configuration, provider, started, createdRoles>>

\* update: await waitUntilFunctionUpdated({ client, maxWaitTime: 180 },
\* { FunctionName }), one poll of the waiter per step; when it resolves update
\* returns res.FunctionArn, when it throws the catch rejects with
\* _handleError(`update(${functionName})`, err).
UpdateWait(c) ==
  /\ call[c].pc = "waitUpdated"
  /\ LET f == call[c].fname
     IN \E resp \in GetFunctionResponses(f), latency \in {0, SlowPoll},
           onError \in {"abort", "retry"} :
          LET k == WaiterPoll(call[c], f, "LastUpdateStatus", "Successful", resp, latency, onError)
              w == k.waiter
          IN /\ call' = [call EXCEPT ![c] =
                  CASE w = "RETRY" -> k
                    [] w = "SUCCESS" -> [k EXCEPT !.pc = "done", !.status = "resolved", !.value = k.res]
                    [] OTHER -> Reject(Failed(k, "waitUntilFunctionUpdated", WaiterMessage(w, resp)),
                                       "update(" \o f \o ")", WaiterMessage(w, resp))]
  /\ UNCHANGED <<configuration, provider, started, createdRoles>>

\* ------------------------------------------------------------------ SimpleLambda.delete

StartDelete(c) ==
  /\ call[c].pc \in {"idle", "done"}
  /\ started < MaxOps
  /\ \E f \in FunctionNames :
       call' = [call EXCEPT ![c] =
                  [IdleCall EXCEPT !.op = "delete", !.fname = f, !.pc = "deleteFunction"]]
  /\ started' = started + 1
  /\ UNCHANGED <<configuration, provider, createdRoles>>

\* delete: DeleteFunctionCommand; the response is returned as it is.
DeleteFunction(c) ==
  /\ call[c].pc = "deleteFunction"
  /\ LET f == call[c].fname
         k == [call[c] EXCEPT !.sent = Append(@, Cmd("DeleteFunction", f, ""))]
     IN \E resp \in DeleteFunctionResponses(f) :
          IF resp.ok
            THEN /\ fnState' = [fnState EXCEPT ![f] = "Absent"]
                 /\ fnUpdate' = [fnUpdate EXCEPT ![f] = "None"]
                 /\ call' = [call EXCEPT ![c] =
                      [k EXCEPT !.pc = "done", !.status = "resolved", !.value = resp.value]]
            ELSE /\ UNCHANGED <<fnState, fnUpdate>>
                 /\ call' = [call EXCEPT ![c] =
                      Reject(Failed(k, "DeleteFunction", resp.error), "delete(" \o f \o ")", resp.error)]
  /\ UNCHANGED <<configuration, roles, attached, started, createdRoles, secrets, replicas>>

\* ------------------------------------------------------------------ SimpleLambda.invoke

StartInvoke(c, payloads) ==
  /\ call[c].pc \in {"idle", "done"}
  /\ started < MaxOps
  /\ \E f \in FunctionNames, payload \in payloads :
       call' = [call EXCEPT ![c] =
                  [IdleCall EXCEPT !.op = "invoke", !.fname = f, !.payload = payload,
                                   !.pc = "invoke"]]
  /\ started' = started + 1
  /\ UNCHANGED <<configuration, provider, createdRoles>>

\* Invoke parsing the response Payload whenever there is one, empty or not.
InvokeParsesEmptyPayload(c) ==
  /\ call[c].pc = "invoke"
  /\ LET f == call[c].fname
         bytes == JsonStringify(call[c].payload)
     IN \E resp \in InvokeResponses(f, bytes) :
          LET k == [call[c] EXCEPT !.sent = Append(@, Cmd("Invoke", f, "")),
                                   !.bytes = bytes, !.response = resp.value]
          IN call' = [call EXCEPT ![c] =
            IF ~resp.ok THEN Reject(Failed(k, "Invoke", resp.error), "invoke(" \o f \o ")", resp.error)
            ELSE IF resp.value.present
              THEN LET decoded == JsonParse(resp.value.bytes)
                   IN IF decoded.ok
                        THEN [k EXCEPT !.pc = "done", !.status = "resolved",
                                       !.decoded = decoded.value]
                        ELSE Reject(Failed(k, "JSON.parse", decoded.error),
                                    "invoke(" \o f \o ")", decoded.error)
              ELSE [k EXCEPT !.pc = "done", !.status = "resolved",
                             !.decoded = EmptyObject]]
  /\ UNCHANGED <<configuration, provider, started, createdRoles>>

\* Invoke returning {} for every response that parses.
InvokeDropsResponse(c) ==
  /\ call[c].pc = "invoke"
  /\ LET f == call[c].fname
         bytes == JsonStringify(call[c].payload)
     IN \E resp \in InvokeResponses(f, bytes) :
          LET k == [call[c] EXCEPT !.sent = Append(@, Cmd("Invoke", f, "")),
                                   !.bytes = bytes, !.response = resp.value]
          IN call' = [call EXCEPT ![c] =
            IF ~resp.ok THEN Reject(Failed(k, "Invoke", resp.error), "invoke(" \o f \o ")", resp.error)
            ELSE IF resp.value.present /\ Len(resp.value.bytes) # 0
              THEN LET decoded == JsonParse(resp.value.bytes)
                   IN IF decoded.ok
                        THEN [k EXCEPT !.pc = "done", !.status = "resolved",
                                       !.decoded = EmptyObject]
                        ELSE Reject(Failed(k, "JSON.parse", decoded.error),
                                    "invoke(" \o f \o ")", decoded.error)
              ELSE [k EXCEPT !.pc = "done", !.status = "resolved",
                             !.decoded = EmptyObject]]
  /\ UNCHANGED <<configuration, provider, started, createdRoles>>

\* invoke: InvokeCommand with the stringified payload; the response Payload is
\* parsed when it is there and not empty, and is {} otherwise.
Invoke(c) ==
  /\ call[c].pc = "invoke"
  /\ LET f == call[c].fname
         bytes == JsonStringify(call[c].payload)
     IN \E resp \in InvokeResponses(f, bytes) :
          LET k == [call[c] EXCEPT !.sent = Append(@, Cmd("Invoke", f, "")),
                                   !.bytes = bytes, !.response = resp.value]
          IN call' = [call EXCEPT ![c] =
            IF ~resp.ok THEN Reject(Failed(k, "Invoke", resp.error), "invoke(" \o f \o ")", resp.error)
            ELSE IF resp.value.present /\ Len(resp.value.bytes) # 0
              THEN LET decoded == JsonParse(resp.value.bytes)
                   IN IF decoded.ok
                        THEN [k EXCEPT !.pc = "done", !.status = "resolved",
                                       !.decoded = decoded.value]
                        ELSE Reject(Failed(k, "JSON.parse", decoded.error),
                                    "invoke(" \o f \o ")", decoded.error)
              ELSE [k EXCEPT !.pc = "done", !.status = "resolved",
                             !.decoded = EmptyObject]]
  /\ UNCHANGED <<configuration, provider, started, createdRoles>>

\* ------------------------------------------------------------------ SimpleLambda.listFunctions

StartListFunctions(c) ==
  /\ call[c].pc \in {"idle", "done"}
  /\ started < MaxOps
  /\ call' = [call EXCEPT ![c] = [IdleCall EXCEPT !.op = "listFunctions", !.pc = "list"]]
  /\ started' = started + 1
  /\ UNCHANGED <<configuration, provider, createdRoles>>

\* listFunctions: ListFunctionsCommand; res.Functions || [].
ListFunctions(c) ==
  /\ call[c].pc = "list"
  /\ LET k == [call[c] EXCEPT !.sent = Append(@, Cmd("ListFunctions", "", ""))]
     IN \E resp \in ListFunctionsResponses :
          call' = [call EXCEPT ![c] =
            IF resp.ok
              THEN [k EXCEPT !.pc = "done", !.status = "resolved", !.listed = resp.value]
              ELSE Reject(Failed(k, "ListFunctions", resp.error), "listFunctions", resp.error)]
  /\ UNCHANGED <<configuration, provider, started, createdRoles>>

\* ------------------------------------------------------------------ single-call wrappers

\* The wrappers that send one command inside try/catch, with the number of
\* arguments their error label names (4: source and destination of a copy).
Wrapper(svc, op, arity) == [svc |-> svc, op |-> op, arity |-> arity]

S3Wrappers ==
  {Wrapper("S3", "listBuckets", 0), Wrapper("S3", "createBucket", 1),
   Wrapper("S3", "deleteBucket", 1), Wrapper("S3", "listObjects", 1),
   Wrapper("S3", "uploadFile", 2),
   Wrapper("S3", "deleteObject", 2), Wrapper("S3", "copyObject", 4)}

\* The second SimpleS3 class of s3.js, with snake_case method names.
S3SnakeWrappers ==
  {Wrapper("S3", "list_buckets", 0), Wrapper("S3", "create_bucket", 1),
   Wrapper("S3", "delete_bucket", 1), Wrapper("S3", "list_objects", 1),
   Wrapper("S3", "upload_file", 2),
   Wrapper("S3", "delete_object", 2), Wrapper("S3", "copy_object", 4)}

DynamoDBWrappers ==
  {Wrapper("DynamoDB", "createTable", 1), Wrapper("DynamoDB", "putItem", 1),
   Wrapper("DynamoDB", "getItem", 1), Wrapper("DynamoDB", "updateItem", 1),
   Wrapper("DynamoDB", "deleteItem", 1), Wrapper("DynamoDB", "query", 1),
   Wrapper("DynamoDB", "scan", 1), Wrapper("DynamoDB", "batchWrite", 0),
   Wrapper("DynamoDB", "transactWrite", 0)}

SecretsManagerWrappers ==
  {Wrapper("SecretsManager", "getSecret", 1), Wrapper("SecretsManager", "rotateSecret", 1),
   Wrapper("SecretsManager", "cancelRotation", 1),
   Wrapper("SecretsManager", "describeSecret", 1),
   Wrapper("SecretsManager", "listSecrets", 0), Wrapper("SecretsManager", "listVersions", 1),
   Wrapper("SecretsManager", "updateSecret", 1), Wrapper("SecretsManager", "tagSecret", 1),
   Wrapper("SecretsManager", "untagSecret", 1),
   Wrapper("SecretsManager", "replicateSecret", 1),
   Wrapper("SecretsManager", "restoreSecret", 1)}

IAMWrappers ==
  {Wrapper("IAM", "createRole", 1), Wrapper("IAM", "attachPolicyToRole", 2),
   Wrapper("IAM", "detachPolicyFromRole", 2), Wrapper("IAM", "listPoliciesOfRole", 1),
   Wrapper("IAM", "getRole", 1), Wrapper("IAM", "listRoles", 0),
   Wrapper("IAM", "createUser", 1), Wrapper("IAM", "attachPolicyToUser", 2),
   Wrapper("IAM", "detachPolicyFromUser", 2), Wrapper("IAM", "listPoliciesOfUser", 1),
   Wrapper("IAM", "getUser", 1), Wrapper("IAM", "listUsers", 0)}

Wrappers ==
  S3Wrappers \cup S3SnakeWrappers \cup DynamoDBWrappers \cup SecretsManagerWrappers \cup IAMWrappers

\* The arguments a wrapper is called with.
WrapperNames == {"alpha"}

WrapperKeys == {"k1"}

\* The template literal a wrapper hands to _handleError.
OperationLabel(op, arity, a, b, destBucket, destKey) ==
  CASE arity = 0 -> op
    [] arity = 1 -> op \o "(" \o a \o ")"
    [] arity = 2 -> op \o "(" \o a \o ", " \o b \o ")"
    [] OTHER -> op \o "(" \o a \o "/" \o b \o " -> " \o destBucket \o "/" \o destKey \o ")"

\* this._handleError of the class the wrapper belongs to.
HandleError(svc, operation, message) ==
  CASE svc = "S3" -> S3HandleError(operation, message)
    [] svc = "DynamoDB" -> DynamoDBHandleError(operation, message)
    [] svc = "SecretsManager" -> SecretsManagerHandleError(operation, message)
    [] svc = "IAM" -> IAMHandleError(operation, message)
    [] OTHER -> LambdaHandleError(operation, message)

\* What the service answers a wrapper's command with.
WrapperResponses == {Ok("response")} \cup {Err(e) : e \in TransientErrors}

StartWrapper(c) ==
  /\ call[c].pc \in {"idle", "done"}
  /\ started < MaxOps
  /\ \E w \in Wrappers, a \in WrapperNames, b \in WrapperKeys,
        destBucket \in WrapperNames \cup {"beta"}, destKey \in WrapperKeys \cup {"k2"} :
       call' = [call EXCEPT ![c] =
                  [IdleCall EXCEPT !.svc = w.svc, !.op = w.op, !.arity = w.arity,
                                   !.fname = IF w.arity = 0 THEN Undefined ELSE a,
                                   !.arg2 = IF w.arity \in {0, 1} THEN Undefined ELSE b,
                                   !.arg3 = IF w.arity = 4 THEN destBucket ELSE Undefined,
                                   !.arg4 = IF w.arity = 4 THEN destKey ELSE Undefined,
                                   !.pc = "send"]]
  /\ started' = started + 1
  /\ UNCHANGED <<configuration, provider, createdRoles>>

\* What a command a wrapper sent changes at the provider once it is answered
\* ok: createRole, attachPolicyToRole and detachPolicyFromRole of SimpleIAM,
\* replicateSecret and restoreSecret of SimpleSecret; the other wrappers
\* change nothing the model keeps.
WrapperEffect(op, a, b) ==
  /\ roles' = IF op = "createRole" THEN roles \cup {a} ELSE roles
  /\ attached' = CASE op = "attachPolicyToRole" /\ a \in roles -> attached \cup {<<a, b>>}
                   [] op = "detachPolicyFromRole" -> attached \ {<<a, b>>}
                   [] OTHER -> attached
  /\ secrets' = IF op = "restoreSecret" THEN secrets \cup {a} ELSE secrets
  /\ replicas' = IF op = "replicateSecret" /\ a \in secrets
                   THEN [replicas EXCEPT ![a] = "replicated"] ELSE replicas

\* try { res = await this.client.send(command); return res } catch (err) { _handleError }
\* The command of a copy has the destination as Bucket and Key and the source
\* as CopySource.
WrapperSend(c) ==
  /\ call[c].pc = "send"
  /\ LET command == IF call[c].arity = 4
                      THEN Cmd(call[c].op, call[c].arg3,
                               call[c].arg4 \o " from " \o call[c].fname \o "/" \o call[c].arg2)
                      ELSE Cmd(call[c].op, call[c].fname, call[c].arg2)
         k == [call[c] EXCEPT !.sent = Append(@, command)]
     IN \E resp \in WrapperResponses :
          IF resp.ok
            THEN /\ call' = [call EXCEPT ![c] =
                      [k EXCEPT !.pc = "done", !.status = "resolved", !.value = resp.value]]
                 /\ WrapperEffect(k.op, k.fname, k.arg2)
            ELSE /\ call' = [call EXCEPT ![c] =
                      [Failed(k, k.op, resp.error) EXCEPT
                         !.pc = "done", !.status = "rejected", !.kind = ErrorName,
                         !.error = HandleError(k.svc,
                                     OperationLabel(k.op, k.arity, k.fname, k.arg2, k.arg3, k.arg4),
                                     resp.error)]]
                 /\ UNCHANGED <<roles, attached, secrets, replicas>>
  /\ UNCHANGED <<configuration, fnState, fnUpdate, started, createdRoles>>

\* ------------------------------------------------------------------ SimpleS3 download and URL

\* res.Body.transformToString(): the text of the object, or the stream fails.
BodyReadResponses == {Ok("text")} \cup {Err("stream broke")}

\* getSignedUrl(this.client, command, { expiresIn }).
SignedUrlResponses == {Ok("https://signed")} \cup {Err(e) : e \in TransientErrors}

\* catch (err) { this._handleError(operation, err) } of SimpleS3.
S3Reject(k, message) ==
  [k EXCEPT !.pc = "done", !.status = "rejected", !.kind = ErrorName,
            !.error = S3HandleError(OperationLabel(k.op, 2, k.fname, k.arg2, k.arg3, k.arg4), message)]

StartDownload(c) ==
  /\ call[c].pc \in {"idle", "done"}
  /\ started < MaxOps
  /\ \E op \in {"downloadFile", "download_file"}, bucket \in WrapperNames, key \in WrapperKeys :
       call' = [call EXCEPT ![c] =
                  [IdleCall EXCEPT !.svc = "S3", !.op = op, !.arity = 2, !.fname = bucket,
                                   !.arg2 = key, !.pc = "getObject"]]
  /\ started' = started + 1
  /\ UNCHANGED <<configuration, provider, createdRoles>>

\* downloadFile, first await: this.client.send(new GetObjectCommand(...)).
DownloadSend(c) ==
  /\ call[c].pc = "getObject"
  /\ LET k == [call[c] EXCEPT !.sent = Append(@, Cmd("GetObject", call[c].fname, call[c].arg2))]
     IN \E resp \in WrapperResponses :
          call' = [call EXCEPT ![c] =
            IF resp.ok THEN [k EXCEPT !.res = resp.value, !.pc = "readBody"]
                       ELSE S3Reject(Failed(k, "GetObject", resp.error), resp.error)]
  /\ UNCHANGED <<configuration, provider, started, createdRoles>>

\* downloadFile, second await: res.Body.transformToString(); the text is the result.
DownloadReadBody(c) ==
  /\ call[c].pc = "readBody"
  /\ \E read \in BodyReadResponses :
       call' = [call EXCEPT ![c] =
         IF read.ok
           THEN [call[c] EXCEPT !.pc = "done", !.status = "resolved", !.value = read.value]
           ELSE S3Reject(Failed(call[c], "transformToString", read.error), read.error)]
  /\ UNCHANGED <<configuration, provider, started, createdRoles>>

StartObjectURL(c) ==
  /\ call[c].pc \in {"idle", "done"}
  /\ started < MaxOps
  /\ \E op \in {"getObjectURL", "get_object_url"}, bucket \in WrapperNames, key \in WrapperKeys :
       call' = [call EXCEPT ![c] =
                  [IdleCall EXCEPT !.svc = "S3", !.op = op, !.arity = 2, !.fname = bucket,
                                   !.arg2 = key, !.pc = "sign"]]
  /\ started' = started + 1
  /\ UNCHANGED <<configuration, provider, createdRoles>>

\* getObjectURL: await getSignedUrl(this.client, command, { expiresIn }); the
\* command is handed to the signer, nothing is sent with client.send.
ObjectURLSign(c) ==
  /\ call[c].pc = "sign"
  /\ LET k == [call[c] EXCEPT !.signed = Append(@, Cmd("GetObject", call[c].fname,
                                                       call[c].arg2))]
     IN \E resp \in SignedUrlResponses :
          call' = [call EXCEPT ![c] =
            IF resp.ok
              THEN [k EXCEPT !.pc = "done", !.status = "resolved", !.value = resp.value]
              ELSE S3Reject(Failed(k, "getSignedUrl", resp.error), resp.error)]
  /\ UNCHANGED <<configuration, provider, started, createdRoles>>

\* ------------------------------------------------------------------ SimpleSecret.putSecret

\* GetSecretValue.
GetSecretValueResponses(name) ==
  (IF name \in secrets THEN {Ok("value")} ELSE {Err("ResourceNotFoundException")})
    \cup {Err(e) : e \in TransientErrors}

\* PutSecretValue: a new version of an existing secret.
PutSecretValueResponses(name) ==
  (IF name \in secrets THEN {Ok("version")} ELSE {Err("ResourceNotFoundException")})
    \cup {Err(e) : e \in TransientErrors}

\* CreateSecret.
CreateSecretResponses(name) ==
  (IF name \in secrets THEN {Err("ResourceExistsException")} ELSE {Ok("created")})
    \cup {Err(e) : e \in TransientErrors}

StartPutSecret(c) ==
  /\ call[c].pc \in {"idle", "done"}
  /\ started < MaxOps
  /\ \E name \in WrapperNames :
       call' = [call EXCEPT ![c] =
                  [IdleCall EXCEPT !.svc = "SecretsManager", !.op = "putSecret",
                                   !.fname = name, !.pc = "getSecret",
                                   !.existed = name \in secrets]]
  /\ started' = started + 1
  /\ UNCHANGED <<configuration, provider, createdRoles>>

\* putSecret, inner try: await this.getSecret(name); any failure goes to the
\* inner catch.
PutSecretGet(c) ==
  /\ call[c].pc = "getSecret"
  /\ LET name == call[c].fname
         k == [call[c] EXCEPT !.sent = Append(@, Cmd("GetSecretValue", name, ""))]
     IN \E resp \in GetSecretValueResponses(name) :
          call' = [call EXCEPT ![c] =
            IF resp.ok
              THEN [k EXCEPT !.lookup = "found", !.pc = "putSecretValue"]
              ELSE [Failed(k, "GetSecretValue", resp.error) EXCEPT
                      !.lookup = resp.error, !.pc = "createSecret"]]
  /\ UNCHANGED <<configuration, provider, started, createdRoles>>

\* putSecret, inner try: PutSecretValueCommand; a failure goes to the inner catch.
PutSecretPut(c) ==
  /\ call[c].pc = "putSecretValue"
  /\ LET name == call[c].fname
         k == [call[c] EXCEPT !.sent = Append(@, Cmd("PutSecretValue", name, ""))]
     IN \E resp \in PutSecretValueResponses(name) :
          call' = [call EXCEPT ![c] =
            IF resp.ok
              THEN [k EXCEPT !.pc = "done", !.status = "resolved", !.value = resp.value]
              ELSE [Failed(k, "PutSecretValue", resp.error) EXCEPT !.pc = "createSecret"]]
  /\ UNCHANGED <<configuration, provider, started, createdRoles>>

\* putSecret, inner catch: CreateSecretCommand; a failure reaches the outer catch.
PutSecretCreate(c) ==
  /\ call[c].pc = "createSecret"
  /\ LET name == call[c].fname
         k == [call[c] EXCEPT !.sent = Append(@, Cmd("CreateSecret", name, ""))]
     IN \E resp \in CreateSecretResponses(name) :
          IF resp.ok
            THEN /\ secrets' = secrets \cup {name}
                 /\ call' = [call EXCEPT ![c] =
                      [k EXCEPT !.pc = "done", !.status = "resolved", !.value = resp.value]]
            ELSE /\ UNCHANGED secrets
                 /\ call' = [call EXCEPT ![c] =
                      [Failed(k, "CreateSecret", resp.error) EXCEPT
                         !.pc = "done", !.status = "rejected", !.kind = ErrorName,
                         !.error = SecretsManagerHandleError(
                                     "putSecret(" \o name \o ")", resp.error)]]
  /\ UNCHANGED <<configuration, roles, attached, fnState, fnUpdate, started, createdRoles, replicas>>

\* ------------------------------------------------------------------ SimpleSecret delete

\* DescribeSecret: the ReplicaRegions of the secret; a replica that is being
\* removed is still listed.
DescribeSecretResponses(name) ==
  (IF name \in secrets
     THEN {Ok(IF replicas[name] = "none" THEN {} ELSE ReplicaRegions)}
     ELSE {ErrWith({}, "ResourceNotFoundException")})
    \cup {ErrWith({}, e) : e \in TransientErrors}

\* UpdateSecret with RemoveReplicaRegions: starts the removal.
RemoveRegionsResponses(name) ==
  (IF name \in secrets THEN {Ok("updated")} ELSE {Err("ResourceNotFoundException")})
    \cup {Err(e) : e \in TransientErrors}

\* DeleteSecret: refused while the secret has replicas.
DeleteSecretResponses(name) ==
  (IF name \notin secrets THEN {Err("ResourceNotFoundException")}
   ELSE IF replicas[name] # "none" THEN {Err("InvalidParameterException")}
   ELSE {Ok("deleted")})
    \cup {Err(e) : e \in TransientErrors}

\* Another client of the account replicates an existing secret.
ProviderReplicates(name) ==
  /\ name \in secrets
  /\ replicas[name] = "none"
  /\ replicas' = [replicas EXCEPT ![name] = "replicated"]
  /\ UNCHANGED <<configuration, roles, attached, fnState, fnUpdate, call, started, createdRoles, secrets>>

\* The provider finishes a replica removal it was asked for.
ProviderRemovesReplicas(name) ==
  /\ replicas[name] = "removing"
  /\ replicas' = [replicas EXCEPT ![name] = "none"]
  /\ UNCHANGED <<configuration, roles, attached, fnState, fnUpdate, call, started, createdRoles, secrets>>

\* catch (err) { this._handleError(operation, err) } of SimpleSecret.
SecretReject(k, operation, message) ==
  [k EXCEPT !.pc = "done", !.status = "rejected", !.kind = ErrorName,
            !.error = SecretsManagerHandleError(operation, message)]

\* The error removeReplicas throws, and as the catch of the delete method
\* wraps it when the delete method called removeReplicas.
RemoveReplicasReject(k, message) ==
  IF k.op = "removeReplicas"
    THEN SecretReject(k, "removeReplicas(" \o k.fname \o ")", message)
    ELSE SecretReject(k, k.op \o "(" \o k.fname \o ")",
                      SecretsManagerHandleError("removeReplicas(" \o k.fname \o ")", message))

\* removeReplicas returns { message }: the result of a direct call; a delete
\* method goes on to its DeleteSecretCommand.
RemoveReplicasReturn(k, message) ==
  IF k.op = "removeReplicas"
    THEN [k EXCEPT !.pc = "done", !.status = "resolved", !.value = message]
    ELSE [k EXCEPT !.pc = "deleteSecret"]

\* What a describe showed of the replicas.
Observed(resp) ==
  IF ~resp.ok THEN "error" ELSE IF resp.value = {} THEN "none" ELSE "replicas"

StartDeleteSecret(c) ==
  /\ call[c].pc \in {"idle", "done"}
  /\ started < MaxOps
  /\ \E name \in WrapperNames, op \in DeleteSecretOps :
       call' = [call EXCEPT ![c] =
                  [IdleCall EXCEPT !.svc = "SecretsManager", !.op = op,
                                   !.fname = name, !.pc = "describe",
                                   !.timeout = ReplicaTimeout,
                                   !.existed = name \in secrets]]
  /\ started' = started + 1
  /\ UNCHANGED <<configuration, provider, createdRoles>>

\* removeReplicas(name, regions = [], timeout = 60000) called by the
\* application: with regions given the first describe is skipped.
StartRemoveReplicas(c) ==
  /\ call[c].pc \in {"idle", "done"}
  /\ started < MaxOps
  /\ \E name \in WrapperNames, regions \in {{}, ReplicaRegions},
        timeout \in {ReplicaTimeout, ShortTimeout} :
       call' = [call EXCEPT ![c] =
                  [IdleCall EXCEPT !.svc = "SecretsManager", !.op = "removeReplicas",
                                   !.fname = name, !.regions = regions, !.timeout = timeout,
                                   !.pc = IF regions = {} THEN "describe" ELSE "removeRegions",
                                   !.existed = name \in secrets]]
  /\ started' = started + 1
  /\ UNCHANGED <<configuration, provider, createdRoles>>

\* removeReplicas called without regions: describeSecret; no replica regions
\* means nothing to remove.
RemoveReplicasDescribe(c) ==
  /\ call[c].pc = "describe"
  /\ LET name == call[c].fname
     IN \E resp \in DescribeSecretResponses(name) :
          LET k == [call[c] EXCEPT !.sent = Append(@, Cmd("DescribeSecret", name, "")),
                                   !.polls = Append(@, Observed(resp))]
          IN call' = [call EXCEPT ![c] =
               IF ~resp.ok
                 THEN RemoveReplicasReject(Failed(k, "DescribeSecret", resp.error),
                        SecretsManagerHandleError("describeSecret(" \o name \o ")", resp.error))
               ELSE IF resp.value = {} THEN RemoveReplicasReturn(k, "No replicas found")
               ELSE [k EXCEPT !.pc = "removeRegions"]]
  /\ UNCHANGED <<configuration, provider, started, createdRoles>>

\* RemoveReplicasUpdate without the poll: the delete follows the update at once.
RemoveReplicasSkipsPoll(c) ==
  /\ call[c].pc = "removeRegions"
  /\ LET name == call[c].fname
         k == [call[c] EXCEPT !.sent = Append(@, Cmd("UpdateSecret", name, "RemoveReplicaRegions"))]
     IN \E resp \in RemoveRegionsResponses(name) :
          IF resp.ok
            THEN /\ replicas' = [replicas EXCEPT
                                   ![name] = IF @ = "none" THEN "none" ELSE "removing"]
                 /\ call' = [call EXCEPT ![c] = [k EXCEPT !.elapsed = 0, !.pc = "deleteSecret"]]
            ELSE /\ UNCHANGED replicas
                 /\ call' = [call EXCEPT ![c] =
                      RemoveReplicasReject(Failed(k, "UpdateSecret", resp.error), resp.error)]
  /\ UNCHANGED <<configuration, roles, attached, fnState, fnUpdate, started, createdRoles, secrets>>

\* removeReplicas: UpdateSecretCommand with RemoveReplicaRegions, then the
\* clock of the poll starts.
RemoveReplicasUpdate(c) ==
  /\ call[c].pc = "removeRegions"
  /\ LET name == call[c].fname
         k == [call[c] EXCEPT !.sent = Append(@, Cmd("UpdateSecret", name, "RemoveReplicaRegions"))]
     IN \E resp \in RemoveRegionsResponses(name) :
          IF resp.ok
            THEN /\ replicas' = [replicas EXCEPT
                                   ![name] = IF @ = "none" THEN "none" ELSE "removing"]
                 /\ call' = [call EXCEPT ![c] = [k EXCEPT !.elapsed = 0, !.pc = "pollReplicas"]]
            ELSE /\ UNCHANGED replicas
                 /\ call' = [call EXCEPT ![c] =
                      RemoveReplicasReject(Failed(k, "UpdateSecret", resp.error), resp.error)]
  /\ UNCHANGED <<configuration, roles, attached, fnState, fnUpdate, started, createdRoles, secrets>>

\* RemoveReplicasPoll whose start time is taken anew in every round: the
\* timeout is never reached while a describe takes less than `timeout`.  The
\* rounds that go on are not logged.
RemoveReplicasPollRestartsClock(c) ==
  /\ call[c].pc = "pollReplicas"
  /\ LET name == call[c].fname
     IN \E resp \in DescribeSecretResponses(name), latency \in DescribeLatencies :
          LET k == [call[c] EXCEPT !.elapsed = latency]
              d == [k EXCEPT !.sent = Append(@, Cmd("DescribeSecret", name, "")),
                             !.polls = Append(@, Observed(resp))]
          IN call' = [call EXCEPT ![c] =
               IF ~resp.ok
                 THEN RemoveReplicasReject(Failed(d, "DescribeSecret", resp.error),
                        SecretsManagerHandleError("describeSecret(" \o name \o ")", resp.error))
               ELSE IF resp.value = {}
                 THEN RemoveReplicasReturn(d, "Replicas removed successfully")
               ELSE IF k.elapsed > k.timeout
                 THEN RemoveReplicasReject(Failed(d, "ReplicaTimeout", "Replica removal timed out"),
                                           "Replica removal timed out")
               ELSE [k EXCEPT !.pc = "sleepReplicas"]]
  /\ UNCHANGED <<configuration, provider, started, createdRoles>>

\* removeReplicas, first await of a round of the poll: describeSecret, which
\* takes some time; break when no replica is left, throw when more than
\* `timeout` has passed since the poll began, go to sleep otherwise.
RemoveReplicasPoll(c) ==
  /\ call[c].pc = "pollReplicas"
  /\ LET name == call[c].fname
     IN \E resp \in DescribeSecretResponses(name), latency \in DescribeLatencies :
          LET k == [call[c] EXCEPT !.sent = Append(@, Cmd("DescribeSecret", name, "")),
                                   !.polls = Append(@, Observed(resp)),
                                   !.elapsed = @ + latency]
          IN call' = [call EXCEPT ![c] =
               IF ~resp.ok
                 THEN RemoveReplicasReject(Failed(k, "DescribeSecret", resp.error),
                        SecretsManagerHandleError("describeSecret(" \o name \o ")", resp.error))
               ELSE IF resp.value = {}
                 THEN RemoveReplicasReturn(k, "Replicas removed successfully")
               ELSE IF k.elapsed > k.timeout
                 THEN RemoveReplicasReject(Failed(k, "ReplicaTimeout", "Replica removal timed out"),
                                           "Replica removal timed out")
               ELSE [k EXCEPT !.pc = "sleepReplicas"]]
  /\ UNCHANGED <<configuration, provider, started, createdRoles>>

\* removeReplicas, second await of a round: the 3000 ms timer fires and the
\* loop goes round.
RemoveReplicasSleep(c) ==
  /\ call[c].pc = "sleepReplicas"
  /\ call' = [call EXCEPT ![c].elapsed = @ + ReplicaPollDelay, ![c].pc = "pollReplicas"]
  /\ UNCHANGED <<configuration, provider, started, createdRoles>>

\* deleteSecretPermanent / deleteSecretWithRecovery after removeReplicas
\* returned: DeleteSecretCommand.
DeleteSecret(c) ==
  /\ call[c].pc = "deleteSecret"
  /\ LET name == call[c].fname
         how == IF call[c].op = "deleteSecretPermanent"
                  THEN "ForceDeleteWithoutRecovery" ELSE "RecoveryWindowInDays"
         k == [call[c] EXCEPT !.sent = Append(@, Cmd("DeleteSecret", name, how))]
     IN \E resp \in DeleteSecretResponses(name) :
          IF resp.ok
            THEN /\ secrets' = secrets \ {name}
                 /\ call' = [call EXCEPT ![c] =
                      [k EXCEPT !.pc = "done", !.status = "resolved", !.value = resp.value]]
            ELSE /\ UNCHANGED secrets
                 /\ call' = [call EXCEPT ![c] =
                      SecretReject(Failed(k, "DeleteSecret", resp.error),
                                   k.op \o "(" \o name \o ")", resp.error)]
  /\ UNCHANGED <<configuration, roles, attached, fnState, fnUpdate, started, createdRoles, replicas>>

\* ------------------------------------------------------------------ SimpleIAM delete

\* deleteRole and deleteUser of SimpleIAM.
IdentityDeletes == {"deleteRole", "deleteUser"}

\* A managed policy besides the basic execution policy.
ReadOnlyPolicy == "arn:aws:iam::aws:policy/ReadOnlyAccess"

\* The commands and wrapper names of the two delete methods.
ListPoliciesCommand(op) ==
  IF op = "deleteRole" THEN "ListAttachedRolePolicies" ELSE "ListAttachedUserPolicies"

DetachPolicyCommand(op) ==
  IF op = "deleteRole" THEN "DetachRolePolicy" ELSE "DetachUserPolicy"

DeleteIdentityCommand(op) == IF op = "deleteRole" THEN "DeleteRole" ELSE "DeleteUser"

ListPoliciesLabel(op, name) ==
  (IF op = "deleteRole" THEN "listPoliciesOfRole(" ELSE "listPoliciesOfUser(") \o name \o ")"

DetachPolicyLabel(op, name, policyArn) ==
  (IF op = "deleteRole" THEN "detachPolicyFromRole(" ELSE "detachPolicyFromUser(")
    \o name \o ", " \o policyArn \o ")"

\* ListAttachedRolePolicies / ListAttachedUserPolicies: the PolicyArn of each
\* entry of AttachedPolicies, in the order listed, or a response without the
\* field.
NoAttachedPolicies == [present |-> FALSE, policies |-> <<>>]

ListAttachedPoliciesResponses ==
  {Ok(NoAttachedPolicies)}
    \cup {Ok([present |-> TRUE, policies |-> l]) :
            l \in {<<>>, <<BasicExecutionPolicy>>, <<BasicExecutionPolicy, ReadOnlyPolicy>>,
                   <<ReadOnlyPolicy, BasicExecutionPolicy>>}}
    \cup {ErrWith(NoAttachedPolicies, e) : e \in {"NoSuchEntity"} \cup TransientErrors}

DetachPolicyResponses == {Ok("detached")} \cup {Err(e) : e \in TransientErrors}

DeleteIdentityResponses ==
  {Ok("deleted")} \cup {Err(e) : e \in {"DeleteConflict"} \cup TransientErrors}

\* catch (err) { this._handleError(operation, err) } of SimpleIAM.
IAMReject(k, operation, message) ==
  [k EXCEPT !.pc = "done", !.status = "rejected", !.kind = ErrorName,
            !.error = IAMHandleError(operation, message)]

StartDeleteIdentity(c) ==
  /\ call[c].pc \in {"idle", "done"}
  /\ started < MaxOps
  /\ \E name \in WrapperNames, op \in IdentityDeletes :
       call' = [call EXCEPT ![c] =
                  [IdleCall EXCEPT !.svc = "IAM", !.op = op, !.fname = name,
                                   !.pc = "listPolicies"]]
  /\ started' = started + 1
  /\ UNCHANGED <<configuration, provider, createdRoles>>

\* deleteRole / deleteUser: listPoliciesOfRole / listPoliciesOfUser, which
\* returns res.AttachedPolicies || [].
DeleteIdentityList(c) ==
  /\ call[c].pc = "listPolicies"
  /\ LET name == call[c].fname
         op == call[c].op
         k == [call[c] EXCEPT !.sent = Append(@, Cmd(ListPoliciesCommand(op), name, ""))]
     IN \E resp \in ListAttachedPoliciesResponses :
          LET attachedPolicies == IF resp.value.present THEN resp.value.policies ELSE <<>>
          IN call' = [call EXCEPT ![c] =
               IF ~resp.ok
                 THEN IAMReject(Failed(k, ListPoliciesCommand(op), resp.error),
                                op \o "(" \o name \o ")",
                                IAMHandleError(ListPoliciesLabel(op, name), resp.error))
               ELSE [k EXCEPT !.policies = attachedPolicies, !.todo = attachedPolicies,
                              !.pc = IF attachedPolicies = <<>> THEN "deleteIdentity"
                                                                ELSE "detachPolicy"]]
  /\ UNCHANGED <<configuration, provider, started, createdRoles>>

\* DeleteIdentityDetach that goes on to the next policy when a detach fails.
DeleteIdentityDetachIgnoresFailure(c) ==
  /\ call[c].pc = "detachPolicy"
  /\ LET name == call[c].fname
         op == call[c].op
         policyArn == Head(call[c].todo)
         k == [call[c] EXCEPT !.sent = Append(@, Cmd(DetachPolicyCommand(op), name, policyArn)),
                              !.todo = Tail(@)]
     IN \E resp \in DetachPolicyResponses :
          LET k2 == IF resp.ok THEN k ELSE Failed(k, DetachPolicyCommand(op), resp.error)
          IN /\ call' = [call EXCEPT ![c] =
                  [k2 EXCEPT !.pc = IF k.todo = <<>> THEN "deleteIdentity" ELSE "detachPolicy"]]
             /\ attached' = IF resp.ok /\ op = "deleteRole"
                              THEN attached \ {<<name, policyArn>>} ELSE attached
  /\ UNCHANGED <<configuration, roles, fnState, fnUpdate, secrets, replicas, started,
                 createdRoles>>

\* deleteRole / deleteUser, one round of the loop over the listed policies:
\* detachPolicyFromRole / detachPolicyFromUser with policy.PolicyArn; the
\* provider drops the attachment of a role when it answers ok.
DeleteIdentityDetach(c) ==
  /\ call[c].pc = "detachPolicy"
  /\ LET name == call[c].fname
         op == call[c].op
         policyArn == Head(call[c].todo)
         k == [call[c] EXCEPT !.sent = Append(@, Cmd(DetachPolicyCommand(op), name, policyArn))]
     IN \E resp \in DetachPolicyResponses :
          /\ call' = [call EXCEPT ![c] =
               IF ~resp.ok
                 THEN IAMReject(Failed(k, DetachPolicyCommand(op), resp.error),
                                op \o "(" \o name \o ")",
                                IAMHandleError(DetachPolicyLabel(op, name, policyArn), resp.error))
               ELSE [k EXCEPT !.todo = Tail(@),
                              !.pc = IF Tail(k.todo) = <<>> THEN "deleteIdentity"
                                                            ELSE "detachPolicy"]]
          /\ attached' = IF resp.ok /\ op = "deleteRole"
                           THEN attached \ {<<name, policyArn>>} ELSE attached
  /\ UNCHANGED <<configuration, roles, fnState, fnUpdate, secrets, replicas, started,
                 createdRoles>>

\* deleteRole / deleteUser after the loop: DeleteRoleCommand / DeleteUserCommand;
\* the provider removes the role when it answers ok.
DeleteIdentity(c) ==
  /\ call[c].pc = "deleteIdentity"
  /\ LET name == call[c].fname
         op == call[c].op
         k == [call[c] EXCEPT !.sent = Append(@, Cmd(DeleteIdentityCommand(op), name, ""))]
     IN \E resp \in DeleteIdentityResponses :
          /\ call' = [call EXCEPT ![c] =
               IF resp.ok
                 THEN [k EXCEPT !.pc = "done", !.status = "resolved", !.value = resp.value]
                 ELSE IAMReject(Failed(k, DeleteIdentityCommand(op), resp.error),
                                op \o "(" \o name \o ")", resp.error)]
          /\ roles' = IF resp.ok /\ op = "deleteRole" THEN roles \ {name} ELSE roles
          /\ attached' = IF resp.ok /\ op = "deleteRole"
                           THEN {x \in attached : x[1] # name} ELSE attached
  /\ UNCHANGED <<configuration, fnState, fnUpdate, secrets, replicas, started, createdRoles>>

\* ------------------------------------------------------------------ putLogEvents

\* const MAX_RETRIES = 3
MAX_RETRIES == 3

\* The event lists putLogEvents is called with: up to two events.
LogEvent(message, timestamp) == [message |-> message, timestamp |-> timestamp]

LogEvents == {LogEvent(m, t) : m \in {"a", "b"}, t \in {1, 2}}

LogEventLists == {<<>>} \cup {<<e>> : e \in LogEvents} \cup {<<e, f>> : e, f \in LogEvents}

\* [...events].sort((a, b) => a.timestamp - b.timestamp): a stable sort.
RECURSIVE InsertByTimestamp(_, _)
InsertByTimestamp(sorted, e) ==
  IF sorted = <<>> THEN <<e>>
  ELSE IF sorted[Len(sorted)].timestamp <= e.timestamp THEN Append(sorted, e)
  ELSE Append(InsertByTimestamp(SubSeq(sorted, 1, Len(sorted) - 1), e), sorted[Len(sorted)])

RECURSIVE SortByTimestamp(_)
SortByTimestamp(events) ==
  IF events = <<>> THEN <<>>
  ELSE InsertByTimestamp(SortByTimestamp(SubSeq(events, 1, Len(events) - 1)),
                         events[Len(events)])

\* A command sent to CloudWatch Logs.
LogCmd(cmd, group, stream, token, events) ==
  [cmd |-> cmd, target |-> group, arg |-> stream, token |-> token, events |-> events]

\* The errors the catch of putLogEvents retries on.
TokenExceptions == {"InvalidSequenceTokenException", "DataAlreadyAcceptedException"}

\* DescribeLogStreams with logStreamNamePrefix and limit 1: no logStreams
\* field, no stream, the stream with or without a token, or another stream
\* whose name begins with the prefix.
LogStream(name, token) == [logStreamName |-> name, uploadSequenceToken |-> token]

NoLogStreams == [present |-> FALSE, logStreams |-> <<>>]

DescribeLogStreamsResponses(stream) ==
  {Ok(NoLogStreams), Ok([present |-> TRUE, logStreams |-> <<>>]),
   Ok([present |-> TRUE, logStreams |-> <<LogStream(stream, "t1")>>]),
   Ok([present |-> TRUE, logStreams |-> <<LogStream(stream, "t2")>>]),
   Ok([present |-> TRUE, logStreams |-> <<LogStream(stream, Undefined)>>]),
   Ok([present |-> TRUE, logStreams |-> <<LogStream(stream \o "-old", "t1")>>])}
    \cup {ErrWith(NoLogStreams, e) : e \in TransientErrors \cup {"InvalidSequenceTokenException"}}

PutLogEventsResponses ==
  {Ok("accepted")} \cup {Err(e) : e \in TokenExceptions \cup TransientErrors}

\* describeResponse.logStreams?.find(ls => ls.logStreamName === logStreamName)
\*   ?.uploadSequenceToken
GetSequenceToken(described, stream) ==
  LET found == SelectSeq(described.logStreams, LAMBDA ls : ls.logStreamName = stream)
  IN IF described.present /\ found # <<>> THEN found[1].uploadSequenceToken ELSE Undefined

\* PutLogEventsCatch counting to one more than MAX_RETRIES: `retries <= MAX_RETRIES`.
PutLogEventsCatchOneMore(k, cmd, e) ==
  LET f == Failed(k, cmd, e)
  IN IF e \in TokenExceptions
       THEN IF k.retries + 1 <= MAX_RETRIES
              THEN [f EXCEPT !.retries = @ + 1, !.pc = "getSequenceToken"]
              ELSE [f EXCEPT !.retries = @ + 1, !.pc = "done", !.status = "rejected",
                             !.kind = ErrorName,
                             !.error = "Failed to put log events to CloudWatch Logs after multiple retries."]
       ELSE [f EXCEPT !.pc = "done", !.status = "rejected", !.kind = e, !.error = e]

\* The catch of the loop body and the loop condition: a token error counts a
\* retry and the loop goes on while retries < MAX_RETRIES, then the final
\* throw; any other error is rethrown as it is.
PutLogEventsCatch(k, cmd, e) ==
  LET f == Failed(k, cmd, e)
  IN IF e \in TokenExceptions
       THEN IF k.retries + 1 < MAX_RETRIES
              THEN [f EXCEPT !.retries = @ + 1, !.pc = "getSequenceToken"]
              ELSE [f EXCEPT !.retries = @ + 1, !.pc = "done", !.status = "rejected",
                             !.kind = ErrorName,
                             !.error = "Failed to put log events to CloudWatch Logs after multiple retries."]
       ELSE [f EXCEPT !.pc = "done", !.status = "rejected", !.kind = e, !.error = e]

\* putLogEvents up to its first await: return at once without events, sort
\* a copy of them otherwise.
StartPutLogEvents(c) ==
  /\ call[c].pc \in {"idle", "done"}
  /\ started < MaxOps
  /\ \E group \in WrapperNames, stream \in WrapperKeys, events \in LogEventLists :
       LET k == [IdleCall EXCEPT !.svc = "CloudWatchLogs", !.op = "putLogEvents", !.arity = 2,
                                 !.fname = group, !.arg2 = stream, !.given = events]
       IN call' = [call EXCEPT ![c] =
            IF Len(events) = 0
              THEN [k EXCEPT !.pc = "done", !.status = "resolved"]
              ELSE [k EXCEPT !.events = SortByTimestamp(events), !.pc = "getSequenceToken"]]
  /\ started' = started + 1
  /\ UNCHANGED <<configuration, provider, createdRoles>>

\* putLogEvents, first await of a round: getSequenceToken.
PutLogEventsGetToken(c) ==
  /\ call[c].pc = "getSequenceToken"
  /\ LET group == call[c].fname
         stream == call[c].arg2
         k == [call[c] EXCEPT !.sent = Append(@, LogCmd("DescribeLogStreams", group, stream,
                                                        Undefined, <<>>))]
     IN \E resp \in DescribeLogStreamsResponses(stream) :
          call' = [call EXCEPT ![c] =
            IF resp.ok
              THEN [k EXCEPT !.token = GetSequenceToken(resp.value, stream),
                             !.polls = Append(@, GetSequenceToken(resp.value, stream)),
                             !.pc = "putLogEvents"]
              ELSE PutLogEventsCatch(k, "DescribeLogStreams", resp.error)]
  /\ UNCHANGED <<configuration, provider, started, createdRoles>>

\* putLogEvents, second await of a round: PutLogEventsCommand with the sorted
\* events and the token just fetched.
PutLogEventsSend(c) ==
  /\ call[c].pc = "putLogEvents"
  /\ LET k == [call[c] EXCEPT !.sent = Append(@, LogCmd("PutLogEvents", call[c].fname,
                                                        call[c].arg2, call[c].token,
                                                        call[c].events))]
     IN \E resp \in PutLogEventsResponses :
          call' = [call EXCEPT ![c] =
            IF resp.ok
              THEN [k EXCEPT !.pc = "done", !.status = "resolved"]
              ELSE PutLogEventsCatch(k, "PutLogEvents", resp.error)]
  /\ UNCHANGED <<configuration, provider, started, createdRoles>>

\* ------------------------------------------------------------------ index.js

\* A key an object literal does not have.
Absent == "absent"

\* The keys of the configuration.
ConfigKeys == {"accessKeyId", "secretAccessKey", "region"}

\* An object without any of the keys: the default `config = {}`, `options = {}`.
NoOptions == [key \in ConfigKeys |-> Absent]

\* The objects setup and boto3 are called with: each key absent or given, the
\* access key also given as undefined or as the empty string.
ConfigOptions ==
  {[accessKeyId |-> a, secretAccessKey |-> s, region |-> r] :
     a \in {Absent, Undefined, "", "AKIA2"}, s \in {Absent, "SECRET2"},
     r \in {Absent, "ap-south-1"}}

\* The AWS_* variables of process.env when index.js is loaded (Undefined: not set).
Environments ==
  {[AWS_ACCESS_KEY_ID |-> a, AWS_SECRET_ACCESS_KEY |-> s, AWS_REGION |-> r] :
     a \in {Undefined, "AKIA1"}, s \in {Undefined, "SECRET1"}, r \in {Undefined, "eu-west-1"}}

\* The AWS_* lines of the file loadEnv reads (Absent: no such line; a file
\* that does not exist has none).
EnvFiles ==
  {[AWS_ACCESS_KEY_ID |-> a, AWS_SECRET_ACCESS_KEY |-> s, AWS_REGION |-> Absent] :
     a \in {Absent, "AKIA3"}, s \in {Absent, "SECRET3"}}

\* The values of AWSService.
AWSService == {"s3", "dynamodb", "lambda", "secretManager", "iam"}

\* !x of a configuration value.
Falsy(x) == x \in {Undefined, ""}

\* { ...base, ...over }: a key of `over` wins, whatever its value.
Merge(base, over) ==
  [key \in ConfigKeys |-> IF over[key] = Absent THEN base[key] ELSE over[key]]

\* dotenv.config({ path }): a variable of the file is set unless process.env
\* already has it.
DotenvConfig(env, file) ==
  [name \in DOMAIN env |->
     IF env[name] = Undefined /\ file[name] # Absent THEN file[name] ELSE env[name]]

\* The object literal globalConfig is assigned from process.env.
ConfigFromEnv(env) ==
  [accessKeyId |-> env.AWS_ACCESS_KEY_ID,
   secretAccessKey |-> env.AWS_SECRET_ACCESS_KEY,
   region |-> IF Falsy(env.AWS_REGION) THEN "us-east-1" ELSE env.AWS_REGION]

\* !config.accessKeyId || !config.secretAccessKey
CredentialsMissing(config) == Falsy(config.accessKeyId) \/ Falsy(config.secretAccessKey)

\* A call of index.js that returned or threw; these calls are synchronous.
Returned(op, arg, options, value) ==
  [IdleCall EXCEPT !.svc = "boto3-js", !.op = op, !.fname = arg, !.options = options,
                   !.pc = "done", !.status = "resolved", !.value = value]

Thrown(op, arg, options, message) ==
  [IdleCall EXCEPT !.svc = "boto3-js", !.op = op, !.fname = arg, !.options = options,
                   !.pc = "done", !.status = "rejected", !.kind = ErrorName,
                   !.error = message]

\* loadEnv(path): dotenv.config, the assignment of globalConfig, then the check.
LoadEnv(c) ==
  /\ call[c].pc \in {"idle", "done"}
  /\ started < MaxOps
  /\ \E file \in EnvFiles :
       LET env == DotenvConfig(processEnv, file)
           config == ConfigFromEnv(env)
       IN /\ processEnv' = env
          /\ globalConfig' = config
          /\ IF CredentialsMissing(config)
               THEN /\ call' = [call EXCEPT ![c] = Thrown("loadEnv", ".env", NoOptions,
                         "[boto3-js] AWS credentials missing in environment. Please add .env or use setup()")]
                    /\ UNCHANGED established
               ELSE /\ call' = [call EXCEPT ![c] = Returned("loadEnv", ".env", NoOptions, Undefined)]
                    /\ established' = config
  /\ started' = started + 1
  /\ UNCHANGED <<provider, createdRoles>>

\* setup(config): the assignment of globalConfig, then the check.
Setup(c) ==
  /\ call[c].pc \in {"idle", "done"}
  /\ started < MaxOps
  /\ \E config \in ConfigOptions :
       LET merged == Merge(globalConfig, config)
       IN /\ globalConfig' = merged
          /\ IF CredentialsMissing(merged)
               THEN /\ call' = [call EXCEPT ![c] = Thrown("setup", Undefined, config,
                         "[boto3-js] AWS credentials missing after setup. Please provide accessKeyId and secretAccessKey")]
                    /\ UNCHANGED established
               ELSE /\ call' = [call EXCEPT ![c] = Returned("setup", Undefined, config, Undefined)]
                    /\ established' = merged
  /\ started' = started + 1
  /\ UNCHANGED <<provider, createdRoles, processEnv>>

\* boto3(service, options): the merge, the check, the switch over the service.
Boto3(c) ==
  /\ call[c].pc \in {"idle", "done"}
  /\ started < MaxOps
  /\ \E service \in {"s3", "lambda", "sqs"}, options \in ConfigOptions :
       LET mergedOptions == Merge(globalConfig, options)
       IN call' = [call EXCEPT ![c] =
            IF CredentialsMissing(mergedOptions)
              THEN Thrown("boto3", service, options,
                          "[boto3-js] AWS credentials missing. Call loadEnv() or setup() first.")
            ELSE IF service \notin AWSService
              THEN Thrown("boto3", service, options,
                          "Service '" \o service \o "' is not supported yet.")
            ELSE Returned("boto3", service, options, mergedOptions.region)]
  /\ started' = started + 1
  /\ UNCHANGED <<provider, createdRoles, configuration>>

Init ==
  /\ roles \in {{}, {DefaultRoleName}}
  /\ attached = {<<r, BasicExecutionPolicy>> : r \in roles}
  /\ fnState \in {[f \in FunctionNames |-> "Absent"],
                 [f \in FunctionNames |-> IF f = "f1" THEN "Active" ELSE "Absent"]}
  /\ fnUpdate = [f \in FunctionNames |-> "None"]
  /\ call = [c \in Calls |-> IdleCall]
  /\ started = 0
  /\ createdRoles = {}
  /\ secrets = {}
  /\ replicas = [name \in WrapperNames |-> "none"]
  /\ processEnv = [AWS_ACCESS_KEY_ID |-> "AKIA1", AWS_SECRET_ACCESS_KEY |-> "SECRET1",
                   AWS_REGION |-> Undefined]
  /\ globalConfig = ConfigFromEnv(processEnv)
  /\ established = globalConfig

\* index.js loaded in any environment, before any call.
InitConfig ==
  /\ roles = {}
  /\ attached = {}
  /\ fnState = [f \in FunctionNames |-> "Absent"]
  /\ fnUpdate = [f \in FunctionNames |-> "None"]
  /\ call = [c \in Calls |-> IdleCall]
  /\ started = 0
  /\ createdRoles = {}
  /\ secrets = {}
  /\ replicas = [name \in WrapperNames |-> "none"]
  /\ processEnv \in Environments
  /\ globalConfig = ConfigFromEnv(processEnv)
  /\ established = globalConfig

Next ==
  \/ \E c \in Calls : StartDeploy(c, ValidCodes)
  \/ \E c \in Calls : StartUpdate(c, ValidCodes)
  \/ \E c \in Calls : UpdateCode(c)
  \/ \E c \in Calls : UpdateWait(c)
  \/ \E c \in Calls : StartDelete(c)
  \/ \E c \in Calls : DeleteFunction(c)
  \/ \E c \in Calls : StartInvoke(c, Payloads)
  \/ \E c \in Calls : Invoke(c)
  \/ \E c \in Calls : StartListFunctions(c)
  \/ \E c \in Calls : ListFunctions(c)
  \/ \E c \in Calls : DeployGetRole(c)
  \/ \E c \in Calls : DeployCreateRole(c)
  \/ \E c \in Calls : DeployAttachPolicy(c)
  \/ \E c \in Calls : DeployCreateFunction(c)
  \/ \E c \in Calls : DeployWait(c)
  \/ \E f \in FunctionNames : ProviderSettlesCreate(f)
  \/ \E f \in FunctionNames : ProviderSettlesUpdate(f)

Spec == Init /\ [][Next]_vars

\* One caller that awaits each call before it makes the next, over the whole
\* surface: the SimpleLambda operations with any code, putSecret and the
\* single-call wrappers.
Caller == "c1"

NextSequential ==
  \/ StartDeploy(Caller, Codes)
  \/ DeployGetRole(Caller)
  \/ DeployCreateRole(Caller)
  \/ DeployAttachPolicy(Caller)
  \/ DeployCreateFunction(Caller)
  \/ DeployWait(Caller)
  \/ StartUpdate(Caller, Codes)
  \/ UpdateCode(Caller)
  \/ UpdateWait(Caller)
  \/ StartDelete(Caller)
  \/ DeleteFunction(Caller)
  \/ StartInvoke(Caller, RichPayloads)
  \/ Invoke(Caller)
  \/ StartListFunctions(Caller)
  \/ ListFunctions(Caller)
  \/ StartWrapper(Caller)
  \/ WrapperSend(Caller)
  \/ StartDownload(Caller)
  \/ DownloadSend(Caller)
  \/ DownloadReadBody(Caller)
  \/ StartObjectURL(Caller)
  \/ ObjectURLSign(Caller)
  \/ StartPutSecret(Caller)
  \/ PutSecretGet(Caller)
  \/ PutSecretPut(Caller)
  \/ PutSecretCreate(Caller)
  \/ StartDeleteSecret(Caller)
  \/ StartRemoveReplicas(Caller)
  \/ RemoveReplicasDescribe(Caller)
  \/ RemoveReplicasUpdate(Caller)
  \/ RemoveReplicasPoll(Caller)
  \/ RemoveReplicasSleep(Caller)
  \/ DeleteSecret(Caller)
  \/ StartDeleteIdentity(Caller)
  \/ DeleteIdentityList(Caller)
  \/ DeleteIdentityDetach(Caller)
  \/ DeleteIdentity(Caller)
  \/ \E name \in WrapperNames : ProviderReplicates(name)
  \/ \E name \in WrapperNames : ProviderRemovesReplicas(name)
  \/ \E f \in FunctionNames : ProviderSettlesCreate(f)
  \/ \E f \in FunctionNames : ProviderSettlesUpdate(f)

SpecSequential == Init /\ [][NextSequential]_vars

\* The steps of the caller's running call: the continuation after each await.
CallerStep ==
  \/ DeployGetRole(Caller)
  \/ DeployCreateRole(Caller)
  \/ DeployAttachPolicy(Caller)
  \/ DeployCreateFunction(Caller)
  \/ DeployWait(Caller)
  \/ UpdateCode(Caller)
  \/ UpdateWait(Caller)
  \/ DeleteFunction(Caller)
  \/ Invoke(Caller)
  \/ ListFunctions(Caller)
  \/ WrapperSend(Caller)
  \/ DownloadSend(Caller)
  \/ DownloadReadBody(Caller)
  \/ ObjectURLSign(Caller)
  \/ PutSecretGet(Caller)
  \/ PutSecretPut(Caller)
  \/ PutSecretCreate(Caller)
  \/ RemoveReplicasDescribe(Caller)
  \/ RemoveReplicasUpdate(Caller)
  \/ RemoveReplicasPoll(Caller)
  \/ RemoveReplicasSleep(Caller)
  \/ DeleteSecret(Caller)
  \/ DeleteIdentityList(Caller)
  \/ DeleteIdentityDetach(Caller)
  \/ DeleteIdentity(Caller)

\* One caller of putLogEvents.
NextLogs ==
  \/ StartPutLogEvents(Caller)
  \/ PutLogEventsGetToken(Caller)
  \/ PutLogEventsSend(Caller)

SpecLogs == Init /\ [][NextLogs]_vars

\* One caller of setup, loadEnv and boto3.
NextConfig ==
  \/ LoadEnv(Caller)
  \/ Setup(Caller)
  \/ Boto3(Caller)

SpecConfig == InitConfig /\ [][NextConfig]_vars

\* SpecSequential with the event loop's guarantee: every request is answered
\* and the continuation of an await whose promise settled is run.  Nothing
\* obliges the provider to ever settle a function.
SpecSequentialFair == SpecSequential /\ WF_vars(CallerStep)

\* ------------------------------------------------------------------ properties

\* The positions of the commands named cmd in a log.
Positions(log, cmd) == {i \in 1..Len(log) : log[i].cmd = cmd}

Issued(log, cmd) == Cardinality(Positions(log, cmd))

\* The call ended its wait on a poll of its own function that came after its
\* successful create/update call and showed the target state.
WaitedFor(k, command, target) ==
  /\ k.res = FunctionArnOf(k.fname)
  /\ Issued(k.sent, command) = 1
  /\ k.waiter = "SUCCESS"
  /\ k.polled = target
  /\ Len(k.sent) > 0
  /\ k.sent[Len(k.sent)] = Cmd("GetFunctionConfiguration", k.fname, "")
  /\ \A i \in Positions(k.sent, command) : i < Len(k.sent)

\* C1: deploy resolves with the function identifier only if, after its
\* create-function call succeeded, the activation waiter for that function
\* completed by observing Active; every other finished deploy is rejected and
\* returns no identifier, and a deploy still running has returned nothing.
C1_DeployResolvesOnlyWhenActive ==
  \A c \in Calls :
    call[c].op = "deploy" =>
      /\ call[c].pc # "done" => call[c].status = "pending" /\ call[c].value = Undefined
      /\ call[c].pc = "done" =>
           IF WaitedFor(call[c], "CreateFunction", "Active")
             THEN call[c].status = "resolved" /\ call[c].value = FunctionArnOf(call[c].fname)
             ELSE call[c].status = "rejected" /\ call[c].value = Undefined

\* A deploy that resolved after polling Pending and then Active.
C1_Witness ==
  \E c \in Calls :
    /\ call[c].op = "deploy"
    /\ call[c].status = "resolved"
    /\ call[c].value = FunctionArnOf(call[c].fname)
    /\ Issued(call[c].sent, "GetFunctionConfiguration") >= 2
    /\ call[c].polled = "Active"

\* C2: update resolves with the function identifier only if, after its
\* update-code call succeeded, the update waiter for that function completed by
\* observing the Successful update status; every other finished update is
\* rejected and returns no identifier.
C2_UpdateResolvesOnlyWhenUpdated ==
  \A c \in Calls :
    call[c].op = "update" =>
      /\ call[c].pc # "done" => call[c].status = "pending" /\ call[c].value = Undefined
      /\ call[c].pc = "done" =>
           IF WaitedFor(call[c], "UpdateFunctionCode", "Successful")
             THEN call[c].status = "resolved" /\ call[c].value = FunctionArnOf(call[c].fname)
             ELSE call[c].status = "rejected" /\ call[c].value = Undefined

\* An update that resolved after polling InProgress and then Successful.
C2_Witness ==
  \E c \in Calls :
    /\ call[c].op = "update"
    /\ call[c].status = "resolved"
    /\ call[c].value = FunctionArnOf(call[c].fname)
    /\ Issued(call[c].sent, "GetFunctionConfiguration") >= 2
    /\ call[c].polled = "Successful"

\* The calls the role resolver makes on the create path, in order.
CreatePath(r) ==
  <<Cmd("GetRole", r, ""), Cmd("CreateRole", r, AssumePolicy),
    Cmd("AttachRolePolicy", r, BasicExecutionPolicy)>>

IsPrefix(a, b) == Len(a) <= Len(b) /\ \A i \in 1..Len(a) : a[i] = b[i]

\* C3: when the role lookup answers not-found, the role resolver issues one
\* create-role call with the Lambda trust policy, then (the role created) one
\* attach-policy call for the basic execution policy on that role name, and
\* returns the identifier create-role answered with; the not-found error is
\* never the error of the deploy.
C3_CreatePathAfterNotFound ==
  \A c \in Calls :
    LET k == call[c]
        r == RoleNameOf(k.ropt)
    IN (k.op = "deploy" /\ k.lookup = "NoSuchEntity") =>
         /\ k.pc # "createRole" => Issued(k.sent, "CreateRole") = 1
         /\ k.pc = "createRole" => k.sent = SubSeq(CreatePath(r), 1, 1)
         /\ k.pc = "attachPolicy" => k.sent = SubSeq(CreatePath(r), 1, 2)
         /\ (k.created = "ok" /\ k.pc # "attachPolicy") =>
              /\ IsPrefix(CreatePath(r), k.sent)
              /\ Issued(k.sent, "AttachRolePolicy") = 1
         /\ k.created # "ok" => Issued(k.sent, "AttachRolePolicy") = 0
         /\ k.roleArn # Undefined =>
              /\ IsPrefix(CreatePath(r), k.sent)
              /\ k.roleArn = k.newRole
              /\ k.newRole = RoleArnOf(r)
         /\ k.pc \in {"createFunction", "waitActive"} => k.roleArn # Undefined
         /\ k.error # LambdaHandleError("deploy(" \o k.fname \o ")",
                         IAMHandleError("getRole(" \o r \o ")", "NoSuchEntity"))

\* A deploy that resolved after its lookup missed and it created the role.
C3_Witness ==
  \E c \in Calls :
    /\ call[c].op = "deploy"
    /\ call[c].lookup = "NoSuchEntity"
    /\ call[c].roleArn = RoleArnOf(RoleNameOf(call[c].ropt))
    /\ call[c].status = "resolved"

\* C4: when the role lookup finds the role, the role resolver returns that
\* role's identifier and issues no create-role and no attach-policy call.
C4_FastPathWhenFound ==
  \A c \in Calls :
    LET k == call[c]
        r == RoleNameOf(k.ropt)
    IN (k.op = "deploy" /\ k.lookup = "found") =>
         /\ k.roleArn = RoleArnOf(r)
         /\ IsPrefix(<<Cmd("GetRole", r, "")>>, k.sent)
         /\ Issued(k.sent, "GetRole") = 1
         /\ Issued(k.sent, "CreateRole") = 0
         /\ Issued(k.sent, "AttachRolePolicy") = 0
         /\ Len(k.sent) >= 2 => k.sent[2] = Cmd("CreateFunction", k.fname, RoleArnOf(r))

\* A finished deploy whose lookup found the role.
C4_Witness ==
  \E c \in Calls :
    /\ call[c].op = "deploy"
    /\ call[c].lookup = "found"
    /\ call[c].pc = "done"
    /\ Issued(call[c].sent, "CreateFunction") = 1

\* C5: a role resolver call made after an earlier call created the role and
\* returned performs only the lookup: it issues no create-role and no
\* attach-policy call and returns the same identifier.
C5_SecondCallOnlyLooksUp ==
  \A c \in Calls :
    LET k == call[c]
    IN (k.op = "deploy" /\ k.priorCreated) =>
         /\ Issued(k.sent, "CreateRole") = 0
         /\ Issued(k.sent, "AttachRolePolicy") = 0
         /\ k.roleArn # Undefined => k.roleArn = RoleArnOf(RoleNameOf(k.ropt))

\* C6: a lookup that fails with an error other than not-found leads to no
\* create-role and no attach-policy call, and the deploy is rejected with that
\* lookup error as its cause.
C6_OtherLookupErrorPropagates ==
  \A c \in Calls :
    LET k == call[c]
        r == RoleNameOf(k.ropt)
    IN (k.op = "deploy" /\ k.lookup \notin {"none", "found", "NoSuchEntity"}) =>
         /\ Issued(k.sent, "CreateRole") = 0
         /\ Issued(k.sent, "AttachRolePolicy") = 0
         /\ k.pc = "done" =>
              /\ k.status = "rejected"
              /\ k.error = LambdaHandleError("deploy(" \o k.fname \o ")",
                              IAMHandleError("getRole(" \o r \o ")", k.lookup))

\* C7: whenever the role resolver has returned a role identifier to a deploy
\* (and no other call is between creating that role and attaching its policy),
\* the role exists and the basic execution policy is attached to it.
C7_ResolvedRoleCarriesPolicy ==
  \A c \in Calls :
    LET k == call[c]
        r == RoleNameOf(k.ropt)
    IN (/\ k.op = "deploy"
        /\ k.roleArn # Undefined
        /\ \A d \in Calls : ~(call[d].pc = "attachPolicy" /\ RoleNameOf(call[d].ropt) = r)) =>
         /\ r \in roles
         /\ <<r, BasicExecutionPolicy>> \in attached

\* C8: of two deploys with the same role name that both saw the lookup miss,
\* the one whose create-role was answered with an already-exists conflict is
\* not rejected: it goes on to create its function.
C8_ConflictTreatedAsExisting ==
  \A c, d \in Calls :
    (/\ c # d
     /\ call[c].op = "deploy" /\ call[d].op = "deploy"
     /\ RoleNameOf(call[c].ropt) = RoleNameOf(call[d].ropt)
     /\ call[c].lookup = "NoSuchEntity" /\ call[d].lookup = "NoSuchEntity"
     /\ call[d].created = "ok"
     /\ call[c].created = "EntityAlreadyExists") =>
       /\ call[c].status # "rejected"
       /\ Issued(call[c].sent, "CreateFunction") = 1 \/ call[c].pc = "createFunction"

\* The operations whose error label names no target.
NoTargetOps ==
  {"listFunctions", "listBuckets", "list_buckets", "listRoles", "listUsers",
   "listSecrets", "batchWrite", "transactWrite"}

\* The target of an operation, as its error label names it.
NamedArguments(k) ==
  IF k.fname = Undefined THEN ""
  ELSE IF k.arg2 = Undefined THEN k.fname
  ELSE IF k.op \in {"copyObject", "copy_object"}
    THEN k.fname \o "/" \o k.arg2 \o " -> " \o k.arg3 \o "/" \o k.arg4
  ELSE k.fname \o ", " \o k.arg2

\* The message of the error the operation's catch block caught: the last
\* failure, as the SimpleIAM method wrapped it when it came from one.
Cause(k) ==
  LET f == k.failed[Len(k.failed)]
      r == RoleNameOf(k.ropt)
  IN CASE f.cmd = "CreateRole" -> "IAM createRole(" \o r \o ") failed: " \o f.error
       [] f.cmd = "AttachRolePolicy" ->
            "IAM attachPolicyToRole(" \o r \o ", " \o BasicExecutionPolicy
              \o ") failed: " \o f.error
       [] f.cmd = "DescribeSecret" /\ k.op = "removeReplicas" ->
            "SecretsManager describeSecret(" \o k.fname \o ") failed: " \o f.error
       [] f.cmd \in {"UpdateSecret", "ReplicaTimeout"} /\ k.op = "removeReplicas" -> f.error
       [] f.cmd = "DescribeSecret" ->
            "SecretsManager removeReplicas(" \o k.fname \o ") failed: "
              \o "SecretsManager describeSecret(" \o k.fname \o ") failed: " \o f.error
       [] f.cmd \in {"UpdateSecret", "ReplicaTimeout"} ->
            "SecretsManager removeReplicas(" \o k.fname \o ") failed: " \o f.error
       [] f.cmd \in {"ListAttachedRolePolicies", "ListAttachedUserPolicies"} ->
            IAMHandleError(ListPoliciesLabel(k.op, k.fname), f.error)
       [] f.cmd \in {"DetachRolePolicy", "DetachUserPolicy"} /\ k.op \in IdentityDeletes ->
            IAMHandleError(DetachPolicyLabel(k.op, k.fname, k.sent[Len(k.sent)].arg), f.error)
       [] OTHER -> f.error

\* The failures an operation answered with a further call: the create-role
\* call sent after a failed role lookup, the create-secret call sent after a
\* failed get-secret or put-secret-value call.
AnsweredByCreate(k) ==
  {i \in 1..Len(k.failed) :
     \/ k.op = "deploy" /\ k.failed[i].cmd = "GetRole" /\ Issued(k.sent, "CreateRole") > 0
     \/ /\ k.op = "putSecret" /\ k.failed[i].cmd \in {"GetSecretValue", "PutSecretValue"}
        /\ Issued(k.sent, "CreateSecret") > 0}

Compensating == {"DeleteFunction", "DeleteRole", "DetachRolePolicy"}

\* C10: a deploy or update issues no delete-function, delete-role or
\* detach-policy call; the step in which it fails changes nothing in the
\* provider (the role and the function it created stay), and after it failed
\* the call takes no further step.
C10_NoCleanupOnFailure ==
  [][\A c \in Calls :
       call[c].op \in {"deploy", "update"} =>
         /\ call'[c].op = call[c].op =>
              \A i \in 1..Len(call'[c].sent) : call'[c].sent[i].cmd \notin Compensating
         /\ (call[c].status = "pending" /\ call'[c].status = "rejected") =>
              provider' = provider
         /\ call[c].status = "rejected" =>
              \/ call'[c] = call[c]
              \/ call'[c].status = "pending" /\ call'[c].sent = <<>>]_vars

\* A deploy that created its role and its function and then timed out waiting:
\* both are still there.
C10_Witness ==
  \E c \in Calls :
    /\ call[c].op = "deploy"
    /\ call[c].status = "rejected"
    /\ call[c].created = "ok"
    /\ call[c].waiter = "TIMEOUT"
    /\ RoleNameOf(call[c].ropt) \in roles
    /\ fnState[call[c].fname] = "Pending"

\* C11: a deploy rejected because its waiter ran out of its wait budget carries
\* an error of kind DeploymentTimeout, an update one of kind UpdateTimeout, and
\* a deploy or update rejected because a collaborator call failed carries an
\* error of another kind.
C11_TimeoutHasItsOwnKind ==
  \A c \in Calls :
    LET k == call[c]
    IN (k.op \in {"deploy", "update"} /\ k.status = "rejected") =>
         /\ k.waiter = "TIMEOUT" =>
              k.kind = (IF k.op = "deploy" THEN "DeploymentTimeout" ELSE "UpdateTimeout")
         /\ k.waiter \in {"none", "ERROR"} =>
              k.kind \notin {"DeploymentTimeout", "UpdateTimeout"}

\* The remote call of a finished invoke was answered (it did not fail).
Answered(k) ==
  /\ k.op = "invoke"
  /\ k.pc = "done"
  /\ \A i \in 1..Len(k.failed) : k.failed[i].cmd # "Invoke"

\* C12: when the invoke response carries no Payload or a Payload of zero
\* bytes, invoke resolves with the empty object {} and raises no error.
C12_EmptyResponseIsEmptyObject ==
  \A c \in Calls :
    LET k == call[c]
    IN (Answered(k) /\ (~k.response.present \/ Len(k.response.bytes) = 0)) =>
         /\ k.status = "resolved"
         /\ k.decoded = EmptyObject
         /\ k.error = ""
         /\ k.failed = <<>>

\* An invoke with a payload that was answered with a Payload of zero bytes.
C12_Witness ==
  \E c \in Calls :
    /\ Answered(call[c])
    /\ call[c].payload # EmptyObject
    /\ call[c].response.present
    /\ Len(call[c].response.bytes) = 0
    /\ call[c].status = "resolved"

\* C13: invoke sends JSON.stringify(payload) to the named function, bytes that
\* parse back to the payload; when the function answers with the bytes it was
\* sent, invoke resolves with a value equal to the payload.
C13_InvokeRoundTrip ==
  \A c \in Calls :
    LET k == call[c]
    IN (k.op = "invoke" /\ k.pc = "done") =>
         /\ k.sent = <<Cmd("Invoke", k.fname, "")>>
         /\ k.bytes = JsonStringify(k.payload)
         /\ JsonParse(k.bytes) = [ok |-> TRUE, value |-> k.payload, error |-> ""]
         /\ (Answered(k) /\ k.response.present /\ k.response.bytes = k.bytes) =>
              /\ k.status = "resolved"
              /\ k.decoded = k.payload

\* An invoke of a nested payload that the function echoed.
C13_Witness ==
  \E c \in Calls :
    /\ Answered(call[c])
    /\ call[c].payload.type = "obj"
    /\ Len(call[c].payload.members) = 3
    /\ call[c].response.present
    /\ call[c].response.bytes = call[c].bytes
    /\ call[c].decoded = call[c].payload
    /\ call[c].status = "resolved"

\* C14: an invoke whose remote call succeeded with non-empty bytes that do not
\* parse is rejected, with no value, by an error of kind MalformedResponse; an
\* invoke whose remote call failed is rejected by an error of another kind.
C14_MalformedResponseHasItsOwnKind ==
  \A c \in Calls :
    LET k == call[c]
    IN /\ (/\ Answered(k)
           /\ k.response.present
           /\ Len(k.response.bytes) # 0
           /\ ~JsonParse(k.response.bytes).ok) =>
            /\ k.status = "rejected"
            /\ k.value = Undefined
            /\ k.kind = "MalformedResponse"
       /\ (k.op = "invoke" /\ k.status = "rejected" /\ ~Answered(k)) =>
            k.kind # "MalformedResponse"

\* C15: a deploy or update called with empty code issues no create-function
\* and no update-code call, and is rejected.
C15_EmptyCodeIsInvalidInput ==
  \A c \in Calls :
    LET k == call[c]
    IN (k.op \in {"deploy", "update"} /\ k.code = "") =>
         /\ Issued(k.sent, "CreateFunction") = 0
         /\ Issued(k.sent, "UpdateFunctionCode") = 0
         /\ k.pc = "done" => k.status = "rejected"

IdentityCommands == {"GetRole", "CreateRole", "AttachRolePolicy"}

\* C16: no step of an update issues a role lookup, a create-role or an
\* attach-policy call, resolves a role, or changes the roles and their attached
\* policies.
C16_UpdateResolvesNoRole ==
  [][\A c \in Calls :
       (call'[c].op = "update" /\ call'[c] # call[c]) =>
         /\ roles' = roles
         /\ attached' = attached
         /\ createdRoles' = createdRoles
         /\ call'[c].roleArn = Undefined
         /\ \A i \in 1..Len(call'[c].sent) : call'[c].sent[i].cmd \notin IdentityCommands]_vars

\* An update that resolved in an account that has no role.
C16_Witness ==
  \E c \in Calls :
    /\ call[c].op = "update"
    /\ call[c].status = "resolved"
    /\ Issued(call[c].sent, "UpdateFunctionCode") = 1
    /\ roles = {}

\* C17: a deploy whose role lookup answered not-found, whose role creation and
\* function creation succeeded and whose polls answered Pending, Pending,
\* Active has issued one lookup, one create-role, one attach-policy and one
\* create-function call, in that order, then its three polls, and has resolved
\* with the identifier the create-function call returned.
C17_NewRoleDeployScenario ==
  \A c \in Calls :
    LET k == call[c]
        r == RoleNameOf(k.ropt)
    IN (/\ k.op = "deploy"
        /\ k.lookup = "NoSuchEntity"
        /\ k.created = "ok"
        /\ k.res # Undefined
        /\ k.polls = <<"Pending", "Pending", "Active">>) =>
         /\ k.sent = CreatePath(r)
                       \o <<Cmd("CreateFunction", k.fname, RoleArnOf(r))>>
                       \o [i \in 1..3 |-> Cmd("GetFunctionConfiguration", k.fname, "")]
         /\ Issued(k.sent, "CreateRole") = 1
         /\ Issued(k.sent, "AttachRolePolicy") = 1
         /\ Issued(k.sent, "CreateFunction") = 1
         /\ k.pc = "done"
         /\ k.status = "resolved"
         /\ k.value = k.res
         /\ k.value = FunctionArnOf(k.fname)
         /\ k.failed = <<Failure("GetRole", "NoSuchEntity")>>

\* The deploy of the scenario, resolved.
C17_Witness ==
  \E c \in Calls :
    /\ call[c].op = "deploy"
    /\ call[c].lookup = "NoSuchEntity"
    /\ call[c].created = "ok"
    /\ call[c].polls = <<"Pending", "Pending", "Active">>
    /\ call[c].status = "resolved"
    /\ call[c].value = FunctionArnOf(call[c].fname)

\* The states a poll shows while the function is still on its way.
StillWaiting == {"Pending", "InProgress", "None"}

\* C18: the wait of a deploy or update never goes past its maximum wait, slow
\* polls included: while it waits the time slept and the time spent in polls
\* stay within maxWaitTime, it polls a bounded number of times, a wait whose
\* polls all showed the function still on its way (or got no answer in time)
\* ends in a timeout error, and every deploy and update that is waiting, or
\* running at all, eventually terminates.
C18_WaitTerminates ==
  /\ [](\A c \in Calls :
          LET k == call[c]
          IN k.op \in {"deploy", "update"} =>
               /\ k.elapsed <= MaxWaitTime
               /\ Len(k.polls) <= (MaxWaitTime \div PollDelay) + 1
               /\ k.pc \in {"waitActive", "waitUpdated"} =>
                    k.elapsed + k.pollTime <= MaxWaitTime
               /\ k.elapsed + k.pollTime <= MaxWaitTime + SlowPoll
               /\ (/\ k.pc = "done"
                   /\ k.polls # <<>>
                   /\ \A i \in 1..Len(k.polls) : k.polls[i] \in StillWaiting \cup {"unanswered"}) =>
                    /\ k.waiter = "TIMEOUT"
                    /\ k.status = "rejected"
                    /\ k.elapsed + k.pollTime + PollDelay > MaxWaitTime
                    /\ k.failed[Len(k.failed)].error = WaiterMessage("TIMEOUT", Ok(NoConfiguration))
                    /\ k.error = LambdaHandleError(k.op \o "(" \o k.fname \o ")",
                                                   WaiterMessage("TIMEOUT", Ok(NoConfiguration))))
  /\ \A c \in Calls :
       (call[c].pc \in {"waitActive", "waitUpdated"}) ~> (call[c].pc = "done")
  /\ \A c \in Calls :
       (call[c].op \in {"deploy", "update"}) ~> (call[c].pc = "done")

\* A deploy whose function stayed Pending for the whole wait and whose polls
\* were slow: timed out, after fewer polls than the budget has room for.
C18_Witness ==
  \E c \in Calls :
    /\ call[c].op = "deploy"
    /\ call[c].pc = "done"
    /\ call[c].waiter = "TIMEOUT"
    /\ call[c].pollTime > 0
    /\ call[c].polls = <<"Pending", "unanswered">>
    /\ fnState[call[c].fname] = "Pending"

SecretWrites == {"PutSecretValue", "CreateSecret"}

\* The write calls of a putSecret, in the order it issued them.
WritesOf(k) == SelectSeq(k.sent, LAMBDA m : m.cmd \in SecretWrites)

\* C19: putSecret issues put-secret-value when the secret exists and
\* create-secret when it does not, and a putSecret that resolved has issued
\* exactly one of the two write calls and returns its response.
C19_Original ==
  \A c \in Calls :
    LET k == call[c]
    IN (k.op = "putSecret" /\ k.pc = "done") =>
         /\ k.existed => WritesOf(k)[1].cmd = "PutSecretValue"
         /\ ~k.existed => WritesOf(k)[1].cmd = "CreateSecret"
         /\ k.status = "resolved" =>
              /\ Len(WritesOf(k)) = 1
              /\ k.value = (IF k.existed THEN "version" ELSE "created")

\* C20: deleteSecretPermanent and deleteSecretWithRecovery issue the
\* delete-secret call last, right after a describe that reported no replica
\* regions; when the first describe reported replicas the remove-replica update
\* comes second, once, and the delete only after a later describe reported
\* none; when the first describe reported none, no remove-replica update is
\* issued and the delete follows at once.
C20_DeleteAfterReplicasRemoved ==
  \A c \in Calls :
    LET k == call[c]
        deletes == Positions(k.sent, "DeleteSecret")
        updates == Positions(k.sent, "UpdateSecret")
        describes == Positions(k.sent, "DescribeSecret")
    IN k.op \in DeleteSecretOps =>
         /\ Cardinality(describes) = Len(k.polls)
         /\ Cardinality(updates) <= 1
         /\ \A i \in deletes :
              /\ i = Len(k.sent)
              /\ i - 1 \in describes
              /\ k.polls[Len(k.polls)] = "none"
         /\ (k.polls # <<>> /\ k.polls[1] = "replicas") =>
              /\ k.pc # "removeRegions" => updates = {2}
              /\ deletes # {} => Len(k.polls) >= 2
              /\ \A i \in deletes : \A j \in updates : j + 1 < i
         /\ (k.polls # <<>> /\ k.polls[1] # "replicas") => updates = {}
         /\ (k.polls # <<>> /\ k.polls[1] = "none" /\ k.pc = "done") =>
              k.sent = <<Cmd("DescribeSecret", k.fname, ""),
                         Cmd("DeleteSecret", k.fname,
                             IF k.op = "deleteSecretPermanent"
                               THEN "ForceDeleteWithoutRecovery" ELSE "RecoveryWindowInDays")>>

\* A delete of a replicated secret that resolved: the first poll after the
\* update still showed the replica, a later one none.
C20_Witness ==
  \E c \in Calls :
    /\ call[c].op = "deleteSecretPermanent"
    /\ call[c].status = "resolved"
    /\ Len(call[c].polls) >= 3
    /\ call[c].polls[1] = "replicas"
    /\ call[c].polls[2] = "replicas"
    /\ Issued(call[c].sent, "UpdateSecret") = 1
    /\ call[c].fname \notin secrets

\* C22: in every deploy the create-function call comes after the role
\* resolver's calls and returned role, and carries exactly the identifier the
\* resolver returned; the polls of the waiter come after the successful create
\* call, all for the deployed function, within one wait of at most 180 whose
\* clock is never restarted; and the deploy returns after its last poll.
C22_DeployOrder ==
  \A c \in Calls :
    LET k == call[c]
        r == RoleNameOf(k.ropt)
        creates == Positions(k.sent, "CreateFunction")
        polls == Positions(k.sent, "GetFunctionConfiguration")
        resolver == {i \in 1..Len(k.sent) : k.sent[i].cmd \in IdentityCommands}
    IN k.op = "deploy" =>
         /\ MaxWaitTime = 180
         /\ Cardinality(creates) <= 1
         /\ \A i \in creates :
              /\ k.roleArn # Undefined
              /\ k.sent[i] = Cmd("CreateFunction", k.fname, k.roleArn)
              /\ k.roleArn = RoleArnOf(r)
              /\ resolver = 1..(i - 1)
              /\ k.sent[1] = Cmd("GetRole", r, "")
         /\ polls # {} =>
              /\ k.res = FunctionArnOf(k.fname)
              /\ \E i \in creates : polls = (i + 1)..Len(k.sent)
              /\ \A i \in polls : k.sent[i] = Cmd("GetFunctionConfiguration", k.fname, "")
              /\ Cardinality(polls) = Len(k.polls)
              /\ k.elapsed <= MaxWaitTime
              /\ k.elapsed = PollDelay * (Len(k.polls) - (IF k.pc = "done" THEN 1 ELSE 0))
         /\ k.pc = "waitActive" => creates # {} /\ k.res # Undefined
         /\ k.status = "resolved" => polls # {} /\ k.value = k.res

\* A deploy with a role of its own that resolved after two polls.
C22_Witness ==
  \E c \in Calls :
    /\ call[c].op = "deploy"
    /\ call[c].ropt = "custom-role"
    /\ call[c].status = "resolved"
    /\ Len(call[c].polls) = 2
    /\ Issued(call[c].sent, "CreateFunction") = 1

\* C23: when the create-function call of a deploy, or the update-code call of
\* an update, failed, no poll of a waiter is issued and the call is rejected;
\* a deploy issues create-function at most once and an update update-code at
\* most once.
C23_NoWaitAfterFailedCall ==
  \A c \in Calls :
    LET k == call[c]
    IN /\ k.op = "deploy" => Issued(k.sent, "CreateFunction") <= 1
       /\ k.op = "update" => Issued(k.sent, "UpdateFunctionCode") <= 1
       /\ (/\ k.op \in {"deploy", "update"}
           /\ \E i \in 1..Len(k.failed) :
                k.failed[i].cmd \in {"CreateFunction", "UpdateFunctionCode"}) =>
            /\ Issued(k.sent, "GetFunctionConfiguration") = 0
            /\ k.polls = <<>>
            /\ k.waiter = "none"
            /\ k.pc = "done"
            /\ k.status = "rejected"
            /\ k.sent[Len(k.sent)].cmd \in {"CreateFunction", "UpdateFunctionCode"}

\* A deploy rejected because its create-function call failed.
C23_Witness ==
  \E c \in Calls :
    /\ call[c].op = "deploy"
    /\ call[c].status = "rejected"
    /\ call[c].failed # <<>>
    /\ call[c].failed[Len(call[c].failed)].cmd = "CreateFunction"
    /\ call[c].error = "Lambda deploy(f1) failed: ResourceConflictException"

\* The answer a waiting call looks for, by operation.
TargetOf(k) == IF k.op = "deploy" THEN "Active" ELSE "Successful"

\* C25: the wait ends in success at the first poll that shows the target
\* state, and no poll follows that one; a poll that shows the failed state
\* ends it in failure; and as long as every poll showed the function still on
\* its way and the next poll falls within the maximum wait, the wait goes on.
C25_WaitStateMachine ==
  \A c \in Calls :
    LET k == call[c]
        n == Len(k.polls)
    IN (k.op \in {"deploy", "update"} /\ k.res # Undefined) =>
         /\ \A i \in 1..n :
              /\ k.polls[i] = TargetOf(k) =>
                   /\ i = n
                   /\ k.pc = "done"
                   /\ k.status = "resolved"
                   /\ k.waiter = "SUCCESS"
                   /\ k.sent[Len(k.sent)] = Cmd("GetFunctionConfiguration", k.fname, "")
              /\ k.polls[i] = "Failed" =>
                   i = n /\ k.pc = "done" /\ k.status = "rejected" /\ k.waiter = "FAILURE"
              /\ i < n => k.polls[i] \notin {TargetOf(k), "Failed", "unanswered"}
         /\ k.status = "resolved" => n > 0 /\ k.polls[n] = TargetOf(k)
         /\ ((\A i \in 1..n : k.polls[i] \in StillWaiting)
               /\ n * PollDelay + k.pollTime <= MaxWaitTime) =>
              /\ k.pc = (IF k.op = "deploy" THEN "waitActive" ELSE "waitUpdated")
              /\ k.status = "pending"
         /\ k.pc \in {"waitActive", "waitUpdated"} => k.waiter \in {"none", "RETRY"}

\* A deploy that saw Pending and then Active at its second poll, and resolved.
C25_Witness ==
  \E c \in Calls :
    /\ call[c].op = "deploy"
    /\ call[c].polls = <<"Pending", "Active">>
    /\ call[c].status = "resolved"
    /\ call[c].waiter = "SUCCESS"

\* The commands a call sends about its function, and those about its role.
FunctionCommands ==
  {"CreateFunction", "UpdateFunctionCode", "GetFunctionConfiguration", "Invoke"}

\* C26: a deploy, update or invoke shares nothing with the calls that run
\* beside it.  Each of its steps changes its own record only, and of the
\* provider only the function it names (and, for a deploy whose role was
\* missing, that role); a function changes only by a step of a call that names
\* it or by the provider; every command a call sends names its own function or
\* its own role, and what it returns is the identifier of its own function or
\* the decoding of its own response.
C26_CallsShareNothing ==
  [][/\ \A c \in Calls :
          LET k == call'[c]
          IN (k # call[c] /\ k.op \in {"deploy", "update", "invoke"}) =>
               /\ \A d \in Calls \ {c} : call'[d] = call[d]
               /\ \A f \in FunctionNames \ {k.fname} :
                    fnState'[f] = fnState[f] /\ fnUpdate'[f] = fnUpdate[f]
               /\ (k.op # "deploy" \/ k.lookup = "found") =>
                    roles' = roles /\ attached' = attached
               /\ \A i \in 1..Len(k.sent) :
                    \/ k.sent[i].cmd \in FunctionCommands /\ k.sent[i].target = k.fname
                    \/ /\ k.sent[i].cmd \in IdentityCommands
                       /\ k.sent[i].target = RoleNameOf(k.ropt)
               /\ k.value \in {Undefined, FunctionArnOf(k.fname)}
               /\ k.status = "resolved" /\ k.op = "invoke" =>
                    k.decoded = (IF k.response.present /\ Len(k.response.bytes) # 0
                                   THEN JsonParse(k.response.bytes).value ELSE EmptyObject)
     /\ \A f \in FunctionNames :
          (fnState'[f] # fnState[f] \/ fnUpdate'[f] # fnUpdate[f]) =>
            \/ call' = call
            \/ \E c \in Calls : call'[c] # call[c] /\ call'[c].fname = f]_vars

\* A deploy with an existing role and an update, of different functions, both
\* in the middle of their waits.
C26_Witness ==
  \E c, d \in Calls :
    /\ call[c].op = "deploy" /\ call[c].lookup = "found"
    /\ call[d].op = "update"
    /\ call[c].fname # call[d].fname
    /\ call[c].pc = "waitActive" /\ Len(call[c].polls) >= 1
    /\ call[d].pc = "waitUpdated" /\ Len(call[d].polls) >= 1

\* C28: putSecret issues a create-secret call only when its lookup failed; when
\* the lookup succeeded and the put-secret-value call that follows fails,
\* putSecret rejects with that failure and issues no create-secret call.
C28_CreateOnlyAfterFailedLookup ==
  \A c \in Calls :
    LET k == call[c]
    IN k.op = "putSecret" =>
         /\ Issued(k.sent, "CreateSecret") > 0 => k.lookup \notin {"none", "found"}
         /\ (k.lookup = "found" /\ Len(k.failed) > 0) =>
              /\ k.failed[1].cmd = "PutSecretValue"
              /\ k.pc = "done"
              /\ k.status = "rejected"
              /\ k.error = SecretsManagerHandleError("putSecret(" \o k.fname \o ")",
                                                     k.failed[1].error)

\* The describes of the replica poll: every describe but the first, which
\* finds the regions when the caller gave none.
PollRounds(k) == IF k.regions = {} THEN SubSeq(k.polls, 2, Len(k.polls)) ELSE k.polls

\* C29: the replica poll of removeReplicas ends.  It goes on only while every
\* describe so far reported replicas and no more than `timeout` had passed at
\* the last of them; it ends at the first describe that reports none, at the
\* first describe that fails, or at a describe that still reports replicas
\* more than `timeout` after the poll began, then with 'Replica removal timed
\* out'.  After a timeout or a failed describe no delete-secret call is issued.
C29_ReplicaPollTerminates ==
  /\ [](\A c \in Calls :
          LET k == call[c]
              rounds == PollRounds(k)
              n == Len(rounds)
          IN (k.op \in DeleteSecretOps \cup {"removeReplicas"}
                /\ Issued(k.sent, "UpdateSecret") = 1) =>
               /\ \A i \in 1..(n - 1) : rounds[i] = "replicas"
               /\ k.pc = "removeRegions" => n = 0
               /\ k.pc = "sleepReplicas" =>
                    /\ \A i \in 1..n : rounds[i] = "replicas"
                    /\ k.elapsed <= k.timeout
                    /\ (n - 1) * ReplicaPollDelay <= k.elapsed
               /\ k.pc = "pollReplicas" =>
                    /\ \A i \in 1..n : rounds[i] = "replicas"
                    /\ k.elapsed <= k.timeout + ReplicaPollDelay
                    /\ n * ReplicaPollDelay <= k.elapsed
               /\ (k.pc \notin {"removeRegions", "pollReplicas", "sleepReplicas"} /\ n > 0) =>
                    /\ rounds[n] = "none" =>
                         /\ k.failed = <<>> \/ k.failed[1].cmd = "DeleteSecret"
                         /\ k.op = "removeReplicas" =>
                              k.status = "resolved" /\ k.value = "Replicas removed successfully"
                    /\ rounds[n] = "replicas" =>
                         /\ k.elapsed > k.timeout
                         /\ k.failed = <<Failure("ReplicaTimeout", "Replica removal timed out")>>
                         /\ k.status = "rejected"
                         /\ k.error =
                              (IF k.op = "removeReplicas"
                                 THEN SecretsManagerHandleError("removeReplicas(" \o k.fname \o ")",
                                                                "Replica removal timed out")
                                 ELSE SecretsManagerHandleError(k.op \o "(" \o k.fname \o ")",
                                        SecretsManagerHandleError("removeReplicas(" \o k.fname \o ")",
                                                                  "Replica removal timed out")))
                    /\ rounds[n] # "none" =>
                         /\ Issued(k.sent, "DeleteSecret") = 0
                         /\ k.pc = "done" /\ k.status = "rejected"
               /\ (k.polls # <<>> /\ k.polls[1] = "error") => Issued(k.sent, "DeleteSecret") = 0
               /\ k.op \in DeleteSecretOps => k.timeout = ReplicaTimeout)
  /\ \A c \in Calls : (call[c].pc \in {"pollReplicas", "sleepReplicas"})
                         ~> (call[c].pc \notin {"pollReplicas", "sleepReplicas"})

\* A delete whose replica poll timed out: every describe of the poll reported
\* replicas, the removal never finished, and no delete-secret call was sent.
C29_Witness ==
  \E c \in Calls :
    /\ call[c].op = "deleteSecretPermanent"
    /\ call[c].pc = "done"
    /\ Len(PollRounds(call[c])) >= 2
    /\ \A i \in 1..Len(call[c].polls) : call[c].polls[i] = "replicas"
    /\ call[c].elapsed > ReplicaTimeout
    /\ call[c].failed = <<Failure("ReplicaTimeout", "Replica removal timed out")>>
    /\ Issued(call[c].sent, "DeleteSecret") = 0
    /\ replicas[call[c].fname] = "removing"

\* The policies a deleteRole / deleteUser has sent a detach call for, in order.
DetachedBy(k) ==
  LET detaches == SelectSeq(k.sent, LAMBDA m : m.cmd = DetachPolicyCommand(k.op))
  IN [i \in 1..Len(detaches) |-> detaches[i].arg]

\* C21: deleteRole and deleteUser list the attached policies first, then send
\* one detach call for each listed policy, in the order listed, and the delete
\* call last, only after every one of those detaches succeeded; when the
\* listing or a detach fails, no further call and no delete call is issued
\* and the operation rejects.
C21_DeleteAfterEveryDetach ==
  \A c \in Calls :
    LET k == call[c]
        deletes == Positions(k.sent, DeleteIdentityCommand(k.op))
    IN (k.op \in IdentityDeletes /\ k.sent # <<>>) =>
         /\ k.sent[1] = Cmd(ListPoliciesCommand(k.op), k.fname, "")
         /\ \A i \in 2..Len(k.sent) : k.sent[i].cmd # ListPoliciesCommand(k.op)
         /\ \A i \in 1..Len(k.sent) : k.sent[i].target = k.fname
         /\ IsPrefix(DetachedBy(k), k.policies)
         /\ deletes # {} =>
              /\ deletes = {Len(k.sent)}
              /\ DetachedBy(k) = k.policies
              /\ k.failed = <<>> \/ k.failed = <<Failure(DeleteIdentityCommand(k.op),
                                                         k.failed[1].error)>>
         /\ (k.failed # <<>> /\ k.failed[1].cmd # DeleteIdentityCommand(k.op)) =>
              /\ deletes = {}
              /\ k.pc = "done" /\ k.status = "rejected"
              /\ k.sent[Len(k.sent)].cmd = k.failed[1].cmd
         /\ k.status = "resolved" => deletes # {} /\ k.failed = <<>>

\* A deleteRole of a role with two listed policies that detached both, in the
\* order listed, and then deleted the role.
C21_Witness ==
  \E c \in Calls :
    /\ call[c].op = "deleteRole"
    /\ call[c].status = "resolved"
    /\ call[c].policies = <<ReadOnlyPolicy, BasicExecutionPolicy>>
    /\ Len(call[c].sent) = 4
    /\ call[c].sent[2] = Cmd("DetachRolePolicy", call[c].fname, ReadOnlyPolicy)
    /\ call[c].sent[3] = Cmd("DetachRolePolicy", call[c].fname, BasicExecutionPolicy)
    /\ call[c].sent[4] = Cmd("DeleteRole", call[c].fname, "")

\* The token failures of a putLogEvents call.
TokenFailures(k) == SelectSeq(k.failed, LAMBDA f : f.error \in TokenExceptions)

\* C27: putLogEvents with events sends at most MAX_RETRIES put calls, each
\* right after a describe that succeeded and with the token that describe
\* showed for the stream (k.polls lists the tokens the successful describes
\* showed), and each with the events in timestamp order; a
\* successful put is the last command and resolves the call; an error that is
\* no token error is the last command and is rethrown as it is; token errors
\* are counted, the call goes on while fewer than MAX_RETRIES were counted and
\* throws 'Failed to put log events ...' at the third; without events the
\* call resolves having sent nothing.
C27_PutLogEventsRetries ==
  \A c \in Calls :
    LET k == call[c]
        puts == Positions(k.sent, "PutLogEvents")
        n == Len(k.sent)
    IN k.op = "putLogEvents" =>
         /\ k.given = <<>> => k.sent = <<>> /\ k.pc = "done" /\ k.status = "resolved"
         /\ Cardinality(puts) <= MAX_RETRIES
         /\ n <= 2 * MAX_RETRIES
         /\ k.retries = Len(TokenFailures(k)) /\ k.retries <= MAX_RETRIES
         /\ \A i \in puts :
              /\ i > 1 /\ k.sent[i - 1].cmd = "DescribeLogStreams"
              /\ k.sent[i].target = k.fname /\ k.sent[i].arg = k.arg2
              /\ Len(k.sent[i].events) = Len(k.given)
              /\ \A a, b \in 1..Len(k.sent[i].events) :
                   a < b => k.sent[i].events[a].timestamp <= k.sent[i].events[b].timestamp
              /\ \A e \in LogEvents :
                   Cardinality({a \in 1..Len(k.given) : k.given[a] = e})
                     = Cardinality({a \in 1..Len(k.given) : k.sent[i].events[a] = e})
         /\ Cardinality(puts) \in {Len(k.polls), Len(k.polls) - 1}
         /\ \A i \in puts :
              k.sent[i].token = k.polls[Cardinality({j \in puts : j <= i})]
         /\ k.status = "resolved" /\ k.given # <<>> =>
              /\ k.sent[n].cmd = "PutLogEvents"
              /\ Len(k.failed) = k.retries
         /\ k.status = "rejected" =>
              LET last == k.failed[Len(k.failed)]
              IN /\ last.cmd = k.sent[n].cmd
                 /\ IF last.error \in TokenExceptions
                      THEN /\ k.retries = MAX_RETRIES
                           /\ k.kind = ErrorName
                           /\ k.error = "Failed to put log events to CloudWatch Logs after multiple retries."
                      ELSE /\ k.error = last.error /\ k.kind = last.error
                           /\ Len(k.failed) = k.retries + 1
         /\ (k.pc # "done" /\ k.given # <<>>) =>
              k.retries < MAX_RETRIES /\ Len(k.failed) = k.retries
         /\ (k.pc = "done" /\ k.given # <<>>) =>
              \/ k.status = "resolved"
              \/ k.status = "rejected"

\* A putLogEvents that was refused for its token three times, each time after
\* fetching the token again, and threw after the third.
C27_Witness ==
  \E c \in Calls :
    /\ call[c].op = "putLogEvents"
    /\ call[c].status = "rejected"
    /\ call[c].retries = MAX_RETRIES
    /\ Issued(call[c].sent, "PutLogEvents") = MAX_RETRIES
    /\ Issued(call[c].sent, "DescribeLogStreams") = MAX_RETRIES
    /\ call[c].given = <<LogEvent("a", 2), LogEvent("b", 1)>>
    /\ call[c].sent[2].events = <<LogEvent("b", 1), LogEvent("a", 2)>>
    /\ call[c].sent[2].token = "t1" /\ call[c].sent[4].token = "t2"

\* C30: a setup or loadEnv that throws leaves globalConfig as it was, and
\* boto3 never changes it: globalConfig is always what the last successful
\* setup or loadEnv (or the loading of the module) left, and a boto3 call for
\* a service of AWSService returns exactly when that configuration merged with
\* its options has both accessKeyId and secretAccessKey.
C30_FailedCallsKeepConfiguration ==
  /\ globalConfig = established
  /\ \A c \in Calls :
       LET k == call[c]
       IN (k.op = "boto3" /\ k.fname \in AWSService) =>
            (k.status = "resolved" <=> ~CredentialsMissing(Merge(established, k.options)))

====
